---- MODULE Spec2Model ----
(***************************************************************************)
(* Batched-job state machine of the driver-based Worker                    *)
(* (GDPy/computation/worker/drive.py).                                     *)
(*                                                                         *)
(* One Worker directory is modelled: the JobDatabase, the info table and   *)
(* the canonical structure store under _data/, the per-structure working   *)
(* directories cand{k}, the compact-mode cache _data/cached.xyz and the    *)
(* jobs of the scheduler.  A working-directory name "cand{k}" is           *)
(* represented by the integer k, a batch name "group-{ig}" by ig, and the  *)
(* MD5 of a canonical structure file by the canonical content itself.      *)
(*                                                                         *)
(* The restart protocol of one Driver on one working directory             *)
(* (GDPy/computation/driver.py, asedriver.py) is modelled next to it:      *)
(* the output files, their gbak.{idx} backups and NNNN.run snapshots.      *)
(***************************************************************************)
EXTENDS Integers, Sequences, FiniteSets, TLC

\* ------------------------------------------------------------------ bounds
MaxN == 2          \* longest structure list handed to Worker.run
MaxB == 2          \* largest batchsize
MaxCand == 3       \* largest number of lines of the info table
MaxDocs == 2       \* largest number of documents of the JobDatabase
\* The same for the runs over several longer structure lists
MaxNWide == 3
MaxCandWide == 5
MaxDocsWide == 4
\* The Driver: largest setting.steps, most backups or snapshots of one
\* working directory, most frames of one traj.xyz
MaxSteps == 3
MaxBackups == 2
MaxFrames == 6
\* The parallel read of _read_results: most working directories read in one
\* call, largest n_jobs
MaxReaders == 3
MaxJobs == 2
\* The string reactor: largest number of images (initial and final state
\* included)
MaxImages == 4
\* The computer: largest number of potentials and of driver variants
MaxPotters == 3
MaxVariants == 3
\* The grid Worker: largest number of structures (and of drivers)
MaxGrid == 3

\* The geometry (cell, symbols, positions, PBC) of the structures
Geoms == {"a"}

\* The structures handed to Worker.run: a geometry, a mobility mask (the
\* constraints of the Atoms) and the info dictionary
Frames == {[positions |-> g, move_mask |-> "free", info |-> "x"] : g \in Geoms}

Modes == {"queue", "command", "compact"}

CandIds == 0 .. ((IF MaxCand >= MaxCandWide THEN MaxCand ELSE MaxCandWide) - 1)

\* All sequences over s with at most n elements.
SeqsUpTo(s, n) == UNION {[1 .. k -> s] : k \in 0 .. n}

\* The structure lists handed to Worker.run
StruLists == SeqsUpTo(Frames, MaxN) \ {<<>>}

WideLists == SeqsUpTo(Frames, MaxNWide)

\* Structures that differ in their positions, their mobility mask or their
\* info, and the lists of them handed to Worker.run
Positions == {"a", "b"}

Masks == {"free", "fixed"}

Infos == {"x", "y"}

MaskedFrames == [positions : Positions, move_mask : Masks, info : Infos]

MaskedLists == SeqsUpTo(MaskedFrames, MaxN) \ {<<>>}

VARIABLES
    mode,        \* "queue": QueueDriverBasedWorker; "command"/"compact":
                 \* CommandDriverBasedWorker without/with _compact
    batchsize,   \* Worker.batchsize
    database,    \* JobDatabase: sequence of documents, doc_id = index
    stored,      \* the md5s for which _data/{md5}.xyz exists
    info_data,   \* lines of all _data/*_info.txt sorted by id
    wdirs,       \* content of the working directory cand{k}
    cached,      \* wdir tags of the frames of _data/cached.xyz
    jobs,        \* state of the job of each document under the scheduler
    last,        \* the last operation, its inputs and its outcome
    driver,      \* one Driver: its setting and its working directory
    dlast,       \* the last call of that Driver and its outcome
    readers,      \* the calls of _iread_results of one _read_results
    reactor,      \* one VaspStringReactor: its setting and its directory
    computer,     \* one ComputerVariable: its potentials, driver variants and Workers
    caller,       \* the caller of the Worker: drive.forward and extract.forward
    grid         \* one GridDriverBasedWorker: its drivers, database and wdirs

vars == <<mode, batchsize, database, stored, info_data, wdirs, cached, jobs,
          last, driver, dlast,
          readers,
          reactor,
          computer,
          caller,
          grid>>

\* ----------------------------------------------------------------- helpers
Range(s) == {s[i] : i \in DOMAIN s}

compact == mode = "compact"

local == mode \in {"command", "compact"}

NoOp ==
    [op |-> "init", S |-> <<>>, wrote |-> FALSE, ok |-> TRUE,
     error |-> "none", skipped |-> {}, ran |-> {},
     resubmit |-> FALSE, replies |-> {}, marked |-> {}, resub |-> <<>>,
     ignore |-> FALSE, filter |-> FALSE, chosen |-> {},
     read |-> <<>>, results |-> <<>>]

\* <<curr_frames, curr_info>>: new Atoms built from the symbols, positions,
\* cell and pbc of each frame, and the info kept aside.
copy_minimal_frames(prev_frames) ==
    <<[i \in 1 .. Len(prev_frames) |-> [positions |-> prev_frames[i].positions]],
      [i \in 1 .. Len(prev_frames) |-> prev_frames[i].info]>>

\* The file written with the columns symbols, positions and move_mask: of
\* every frame, in order, those of the columns that the frame has.
write_frames(frames) ==
    [i \in 1 .. Len(frames) |->
        [c \in {"positions", "move_mask"} \cap DOMAIN frames[i] |-> frames[i][c]]]

\* get_file_md5 over the content of a file: the digest is a function of
\* the content (taken injective).
get_file_md5(S) == S

\* The MD5 of the input structures S as _preprocess computes it
inp_stru_md5(S) == get_file_md5(write_frames(copy_minimal_frames(S)[1]))

\* ------------------------------------------------------------ _split_groups
\* group_indices without the closing index of a last, shorter batch
group_indices_floor(nframes, B) ==
    [k \in 1 .. ((nframes \div B) + 1) |-> (k - 1) * B]

\* One batch with all the frames, whatever the batchsize
group_indices_single(nframes, B) == <<0, nframes>>

group_indices(nframes, B) ==
    LET ngroups == nframes \div B
        base == [k \in 1 .. (ngroups + 1) |-> (k - 1) * B]
    IN  IF base[ngroups + 1] # nframes THEN Append(base, nframes) ELSE base

\* <<starts, ends>>
_split_groups(nframes, B) ==
    LET gi == group_indices(nframes, B)
    IN  <<SubSeq(gi, 1, Len(gi) - 1), SubSeq(gi, 2, Len(gi))>>

\* -------------------------------------------------------------- _preprocess
\* Index of the first line of info whose MD5 is md5, counted from 0;
\* Len(info) when there is none.
\* The index of the first line of the whole table
FirstIndex_zero(info, md5, k) == 0

RECURSIVE FirstIndex(_, _, _)
FirstIndex(info, md5, k) ==
    IF k > Len(info) THEN Len(info)
    ELSE IF info[k].md5 = md5 THEN k - 1
    ELSE FirstIndex(info, md5, k + 1)

\* _preprocess writing _data/{md5}.xyz whether or not it exists
_preprocess_rewrite(S) ==
    LET curr_md5 == inp_stru_md5(S)
    IN  [md5 |-> curr_md5, wrote |-> TRUE,
         info |-> IF curr_md5 \in stored THEN info_data
                  ELSE info_data \o
                       [i \in 1 .. Len(S) |->
                           [id |-> (i - 1) + Len(info_data), md5 |-> curr_md5]],
         stored |-> stored \cup {curr_md5},
         start_confid |-> IF curr_md5 \in stored
                          THEN FirstIndex(info_data, curr_md5, 1)
                          ELSE Len(info_data)]

\* [md5, info, stored, start_confid] after _preprocess of the frames S, and
\* whether it wrote _data/{md5}.xyz
_preprocess(S) ==
    LET curr_md5 == inp_stru_md5(S)
    IN  IF curr_md5 \in stored
        THEN [md5 |-> curr_md5, info |-> info_data, stored |-> stored,
              wrote |-> FALSE,
              start_confid |-> FirstIndex(info_data, curr_md5, 1)]
        ELSE [md5 |-> curr_md5, wrote |-> TRUE,
              info |-> info_data \o
                       [i \in 1 .. Len(S) |->
                           [id |-> (i - 1) + Len(info_data), md5 |-> curr_md5]],
              stored |-> stored \cup {curr_md5},
              start_confid |-> Len(info_data)]

\* --------------------------------------------------------- _prepare_batches
\* The wdir of every frame, from the info table
frame_wdirs(nframes, info, start_confid) ==
    [i \in 1 .. nframes |-> info[i + start_confid].id]

\* The assertion of _prepare_batches left out
wdirs_unique_unchecked(w) == TRUE

\* The assertion of _prepare_batches that every structure has a wdir of its
\* own
wdirs_unique(w) == Cardinality(Range(w)) = Len(w)

\* The division by the batchsize raising a ConfigurationError
split_error_configuration(B) ==
    IF B = 0 THEN "ConfigurationError" ELSE "none"

\* The exception of the division of _split_groups by the batchsize
split_error(B) == IF B = 0 THEN "ZeroDivisionError" ELSE "none"

\* Sequence of the cur_wdirs of the batches, batch ig at index ig + 1
_prepare_batches(nframes, info, start_confid, B) ==
    LET w == frame_wdirs(nframes, info, start_confid)
        se == _split_groups(nframes, B)
    IN  [g \in 1 .. Len(se[1]) |-> SubSeq(w, se[1][g] + 1, se[2][g])]

\* ------------------------------------------------------------------ _irun
Outcomes == {"ok", "error", "empty"}

\* Driver.run in the working directory k.  A directory holding a finished
\* trajectory is returned as it is; otherwise the engine runs and leaves
\* the content c: a trajectory ("ok"), a trajectory whose first frame
\* carries info.error ("error") or no readable frame ("empty").  On "empty"
\* AseDriver.run fails its assertion (asserts), AbstractDriver.run returns
\* None.
driver_run(wd, k, c, asserts) ==
    IF wd[k] = "ok"
    THEN [wd |-> wd, raised |-> FALSE]
    ELSE [wd |-> [wd EXCEPT ![k] = c], raised |-> (c = "empty" /\ asserts)]

\* CommandDriverBasedWorker._irun, not compact: one Driver.run per wdir, in
\* order; an exception of the driver ends the loop.
RECURSIVE command_irun(_, _, _, _, _)
command_irun(curr_wdirs, j, wd, c, asserts) ==
    IF j > Len(curr_wdirs) THEN [wd |-> wd, raised |-> FALSE]
    ELSE LET r == driver_run(wd, curr_wdirs[j], c[curr_wdirs[j]], asserts)
         IN  IF r.raised THEN r
             ELSE command_irun(curr_wdirs, j + 1, r.wd, c, asserts)

\* CommandDriverBasedWorker._irun, compact: the wdirs already in cached.xyz
\* (read once, before the loop) are skipped, every other structure runs in
\* _shared/ and its last frame is appended to cached.xyz; without a frame
\* the driver or the write of None raises.
\* compact _irun without the test of the cache
RECURSIVE compact_irun_rerun(_, _, _, _, _)
compact_irun_rerun(curr_wdirs, j, cached_wdirs, cache, c) ==
    IF j > Len(curr_wdirs) THEN [cache |-> cache, raised |-> FALSE]
    ELSE IF c[curr_wdirs[j]] = "empty"
         THEN [cache |-> cache, raised |-> TRUE]
    ELSE compact_irun_rerun(curr_wdirs, j + 1, cached_wdirs,
                            Append(cache, curr_wdirs[j]), c)

RECURSIVE compact_irun(_, _, _, _, _)
compact_irun(curr_wdirs, j, cached_wdirs, cache, c) ==
    IF j > Len(curr_wdirs) THEN [cache |-> cache, raised |-> FALSE]
    ELSE IF curr_wdirs[j] \in cached_wdirs
         THEN compact_irun(curr_wdirs, j + 1, cached_wdirs, cache, c)
    ELSE IF c[curr_wdirs[j]] = "empty"
         THEN [cache |-> cache, raised |-> TRUE]
    ELSE compact_irun(curr_wdirs, j + 1, cached_wdirs,
                      Append(cache, curr_wdirs[j]), c)

\* _irun of the Worker of this mode on one batch.  env holds the outcomes
\* of the engine (c), the kind of driver (asserts) and the batch whose
\* submission the scheduler refuses (refused, 0 for none).
\* Result: [wd, cache, job, raised]
_irun(ig, curr_wdirs, wd, cache, env) ==
    IF mode = "queue"
    THEN \* QueueDriverBasedWorker._irun: write the script and submit it
         [wd |-> wd, cache |-> cache, job |-> "running",
          raised |-> (env.refused = ig + 1)]
    ELSE IF mode = "command"
    THEN LET r == command_irun(curr_wdirs, 1, wd, env.c, env.asserts)
         IN  [wd |-> r.wd, cache |-> cache, job |-> "done",
              raised |-> r.raised]
    ELSE LET r == compact_irun(curr_wdirs, 1, Range(cache), cache, env.c)
         IN  [wd |-> wd, cache |-> r.cache, job |-> "done",
              raised |-> r.raised]

\* --------------------------------------------------------------- Worker.run
\* The test of run() that a batch was submitted before
was_submitted(ig, identifier, queued_names, queued_frames) ==
    ig \in queued_names /\ identifier \in queued_frames

\* The document run() inserts for batch ig
new_doc(uid, identifier, ig, curr_wdirs) ==
    [uid |-> uid, md5 |-> identifier, gdir |-> <<uid, ig>>,
     group_number |-> ig, wdir_names |-> curr_wdirs,
     queued |-> TRUE, finished |-> FALSE, retrieved |-> FALSE]

\* The loop of run() over the batches from index g on (batch ig = g - 1).
\* queued_names and queued_frames were read before the loop.
RECURSIVE run_loop(_, _, _, _, _, _, _)
run_loop(g, batches, identifier, queued_names, queued_frames, env, st) ==
    IF g > Len(batches) THEN st
    ELSE IF was_submitted(g - 1, identifier, queued_names, queued_frames)
    THEN run_loop(g + 1, batches, identifier, queued_names, queued_frames,
                  env, [st EXCEPT !.skipped = @ \cup {g - 1}])
    ELSE LET r == _irun(g - 1, batches[g], st.wd, st.cache, env)
             uid == Len(st.db) + 1
         IN  IF r.raised
             THEN [st EXCEPT !.wd = r.wd, !.cache = r.cache, !.ok = FALSE]
             ELSE run_loop(g + 1, batches, identifier, queued_names,
                           queued_frames, env,
                           [st EXCEPT
                              !.wd = r.wd, !.cache = r.cache,
                              !.db = Append(@, new_doc(uid, identifier, g - 1,
                                                       batches[g])),
                              !.jobs = Append(@, r.job),
                              !.ran = @ \cup {g - 1}])

\* The search for the jobs still running instead of all queued ones
queued_docs_running(db) == {i \in DOMAIN db : db[i].queued /\ ~db[i].finished}

\* database.search(Query().queued.exists())
queued_docs(db) == {i \in DOMAIN db : db[i].queued}

\* Worker.run(S) with the environment env
run(S, env) ==
    \E p \in {_preprocess(S)} :
    \* _prepare_batches raises before the loop over the batches
    \E error \in {IF ~wdirs_unique(frame_wdirs(Len(S), p.info,
                                               p.start_confid))
                   THEN "AssertionError"
                   ELSE split_error(batchsize)} :
    LET batches == IF error = "none"
                   THEN _prepare_batches(Len(S), p.info, p.start_confid,
                                         batchsize)
                   ELSE <<>>
        queued_jobs == queued_docs(database)
        queued_names == {database[i].gdir[2] : i \in queued_jobs}
        queued_frames == {database[i].md5 : i \in queued_jobs}
        st0 == [db |-> database, wd |-> wdirs, cache |-> cached,
                jobs |-> jobs, skipped |-> {}, ran |-> {}, ok |-> TRUE]
    IN  \E st \in {run_loop(1, batches, p.md5, queued_names, queued_frames,
                            env, st0)} :
        /\ database' = st.db
        /\ wdirs' = st.wd
        /\ cached' = st.cache
        /\ jobs' = st.jobs
        /\ stored' = p.stored
        /\ info_data' = p.info
        /\ last' = [NoOp EXCEPT !.op = "run", !.S = S,
                                !.ok = (st.ok /\ error = "none"),
                                !.error = error,
                                !.skipped = st.skipped, !.ran = st.ran,
                                !.wrote = p.wrote]
        /\ UNCHANGED <<grid, computer, reactor, readers, driver, dlast, mode, batchsize>>

NoEnv == [c |-> [k \in CandIds |-> "ok"], asserts |-> FALSE, refused |-> 0]

\* The outcomes of the engine for the frames of S, by wdir
outcomes_by_wdir(S, cp) ==
    LET start == _preprocess(S).start_confid
    IN  [k \in CandIds |->
            IF (k - start) + 1 \in 1 .. Len(S) THEN cp[(k - start) + 1] ELSE "ok"]

\* Worker.run on one of the lists, within the bounds
RunOf(lists, maxcand, maxdocs, outcomes) ==
    \E S \in lists :
        /\ inp_stru_md5(S) \notin stored => Len(info_data) + Len(S) <= maxcand
        /\ \/ /\ mode = "queue"
              /\ \E refused \in 0 .. Len(S) :
                    run(S, [NoEnv EXCEPT !.refused = refused])
           \/ /\ mode = "command"
              /\ \E cp \in [1 .. Len(S) -> outcomes], asserts \in BOOLEAN :
                    run(S, [NoEnv EXCEPT !.c = outcomes_by_wdir(S, cp),
                                         !.asserts = asserts])
           \/ /\ mode = "compact"
              /\ \E cp \in [1 .. Len(S) -> outcomes] :
                    run(S, [NoEnv EXCEPT !.c = outcomes_by_wdir(S, cp)])
        /\ Len(database') <= maxdocs
        /\ UNCHANGED caller

Run == RunOf(StruLists, MaxCand, MaxDocs, Outcomes)

RunWide == RunOf(WideLists, MaxCandWide, MaxDocsWide, {"ok", "empty"})

RunMasked == RunOf(MaskedLists, MaxCand, MaxDocs, {"ok"})

\* Worker.run on a Worker of any batchsize
RunFatal == RunOf(WideLists, MaxCandWide, MaxDocsWide, {"ok"})

\* The lines of two info files sorted by id, the lines of a before those
\* of b where the ids are the same
RECURSIVE merge_by_id(_, _)
merge_by_id(a, b) ==
    IF a = <<>> THEN b
    ELSE IF b = <<>> THEN a
    ELSE IF a[1].id <= b[1].id THEN <<a[1]>> \o merge_by_id(Tail(a), b)
    ELSE <<b[1]>> \o merge_by_id(a, Tail(b))

\* Two Workers on the same directory that start Worker.run too close: both
\* read the info table and the JobDatabase before either has written its
\* info file, so both number their structures from the same id; then the
\* first runs its batches, then the second.
RunRace ==
    \E S1 \in WideLists, S2 \in WideLists, first \in BOOLEAN :
        LET pA == _preprocess(S1)
            pB == _preprocess(S2)
            linesA == SubSeq(pA.info, Len(info_data) + 1, Len(pA.info))
            linesB == SubSeq(pB.info, Len(info_data) + 1, Len(pB.info))
            batchesA == _prepare_batches(Len(S1), pA.info, pA.start_confid,
                                         batchsize)
            batchesB == _prepare_batches(Len(S2), pB.info, pB.start_confid,
                                         batchsize)
            queued_jobs == queued_docs(database)
            queued_names == {database[i].gdir[2] : i \in queued_jobs}
            queued_frames == {database[i].md5 : i \in queued_jobs}
            st0 == [db |-> database, wd |-> wdirs, cache |-> cached,
                    jobs |-> jobs, skipped |-> {}, ran |-> {}, ok |-> TRUE]
            stA == run_loop(1, batchesA, pA.md5, queued_names, queued_frames,
                            NoEnv, st0)
            stB == run_loop(1, batchesB, pB.md5, queued_names, queued_frames,
                            NoEnv, [stA EXCEPT !.skipped = {}, !.ran = {}])
        IN  /\ batchsize > 0
            /\ S1 # <<>> /\ S2 # <<>>
            /\ pA.wrote /\ pB.wrote /\ pA.md5 # pB.md5
            /\ Len(info_data) + Len(S1) + Len(S2) <= MaxCandWide
            /\ Len(stB.db) <= MaxDocsWide
            /\ database' = stB.db
            /\ wdirs' = stB.wd
            /\ cached' = stB.cache
            /\ jobs' = stB.jobs
            /\ stored' = stored \cup {pA.md5, pB.md5}
            /\ info_data' = info_data \o
                               (IF first THEN merge_by_id(linesA, linesB)
                                ELSE merge_by_id(linesB, linesA))
            /\ last' = [NoOp EXCEPT !.op = "race", !.S = S1, !.wrote = TRUE,
                                    !.skipped = stA.skipped, !.ran = stA.ran]
            /\ UNCHANGED <<grid, caller, computer, reactor, readers, driver, dlast, mode, batchsize>>

\* ----------------------------------------------------------- JobDatabase
\* Queries of the Worker base class over the lifecycle flags
_get_running_jobs(db) ==
    {i \in DOMAIN db : db[i].queued /\ ~db[i].finished}

_get_finished_jobs(db) ==
    {i \in DOMAIN db : db[i].queued /\ db[i].finished}

_get_unretrieved_jobs(db) ==
    {i \in DOMAIN db : db[i].queued /\ db[i].finished /\ ~db[i].retrieved}

\* --------------------------------------------------------------- Scheduler
\* The documents for which Scheduler.is_finished may return true: the local
\* scheduler has returned from every call; a queue job is finished once it
\* left the queue, whatever it left behind.
may_be_finished(i) == local \/ jobs[i] = "done"

\* Scheduler.submit of the script of document i
scheduler_submit(jb, i) ==
    IF mode = "queue" THEN [jb EXCEPT ![i] = "running"] ELSE jb

\* ------------------------------------------------------------------ inspect
\* A validity test satisfied by one existing wdir
wdirs_valid_any(wdir_names) ==
    IF ~compact
    THEN \E j \in DOMAIN wdir_names : wdirs[wdir_names[j]] # "absent"
    ELSE Range(wdir_names) = Range(cached)

\* The validity test of inspect for the wdirs of one finished job
wdirs_valid(wdir_names) ==
    IF ~compact
    THEN \A j \in DOMAIN wdir_names : wdirs[wdir_names[j]] # "absent"
    ELSE Range(wdir_names) = Range(cached)

\* A resubmission that does not ask for the resubmit flag
needs_resubmit_unasked(resubmit, valid) == ~valid

\* The branch of inspect that resubmits a job of the queue that left
\* without valid wdirs
needs_resubmit(resubmit, valid) == ~valid /\ resubmit

\* An update of inspect that writes the flag of retrieve as well
mark_finished_retrieved(doc) == [doc EXCEPT !.finished = TRUE, !.retrieved = TRUE]

\* database.update({"finished": True}, ...) of inspect
mark_finished(doc) == [doc EXCEPT !.finished = TRUE]

\* The documents of the set ds, in the order of the database
RECURSIVE docs_in_order(_, _, _)
docs_in_order(db, ds, i) ==
    IF i > Len(db) THEN <<>>
    ELSE (IF i \in ds THEN <<i>> ELSE <<>>) \o docs_in_order(db, ds, i + 1)

\* inspect(resubmit) where is_finished returns true exactly for the
\* documents of replies.  Result: [db, jobs, raised, marked, resub]
inspect(resubmit, replies) ==
    LET running_jobs == _get_running_jobs(database)
        answered == running_jobs \cap replies
        \* read() of a missing cached.xyz raises
        raised == compact /\ cached = <<>> /\ answered # {}
        marked == IF raised THEN {}
                  ELSE {i \in answered : wdirs_valid(database[i].wdir_names)}
        resub == IF raised THEN {}
                 ELSE {i \in answered : needs_resubmit(resubmit, i \in marked)}
    IN  [db |-> [i \in DOMAIN database |->
                    IF i \in marked THEN mark_finished(database[i])
                    ELSE database[i]],
         jobs |-> [i \in DOMAIN jobs |->
                    IF i \in resub THEN scheduler_submit(jobs, i)[i]
                    ELSE jobs[i]],
         raised |-> raised, marked |-> marked,
         \* the calls of Scheduler.submit, in order
         resub |-> docs_in_order(database, resub, 1)]

\* The answers is_finished can give in the current state
Replies ==
    IF local THEN {DOMAIN database}
    ELSE SUBSET {i \in _get_running_jobs(database) : may_be_finished(i)}

Inspect ==
    \E resubmit \in BOOLEAN, replies \in Replies :
        LET r == inspect(resubmit, replies)
        IN  /\ database' = r.db
            /\ jobs' = r.jobs
            /\ last' = [NoOp EXCEPT !.op = "inspect", !.ok = ~r.raised,
                                    !.resubmit = resubmit, !.replies = replies,
                                    !.marked = r.marked, !.resub = r.resub]
            /\ UNCHANGED <<grid, caller, computer, reactor, readers, driver, dlast, mode, batchsize, stored, info_data,
                           wdirs, cached>>

\* ----------------------------------------------------------------- retrieve
\* _read_results without the sift of the error structures
_read_results_unsifted(ws) ==
    [raised |-> \E j \in DOMAIN ws : wdirs[ws[j]] \in {"absent", "empty"},
     results |-> ws]

\* _read_results over the wdirs ws: every wdir is read through the driver;
\* a wdir without a frame fails the read of its first frame, a trajectory
\* whose first frame carries info.error is sifted out.
\* Result: [raised, results]
_read_results(ws) ==
    [raised |-> \E j \in DOMAIN ws : wdirs[ws[j]] \in {"absent", "empty"},
     results |-> SelectSeq(ws, LAMBDA k : wdirs[k] = "ok")]

\* An update that replaces the flags instead of merging into them
mark_retrieved_reset(doc) == [doc EXCEPT !.retrieved = TRUE, !.finished = FALSE]

\* A retrieve that forgets the update
mark_retrieved_never(doc) == doc

\* database.update({"retrieved": True}, ...) of retrieve
mark_retrieved(doc) == [doc EXCEPT !.retrieved = TRUE]

\* The wdir_names of the documents of the set ds, in the order of the
\* database
RECURSIVE wdirs_of(_, _, _)
wdirs_of(db, ds, i) ==
    IF i > Len(db) THEN <<>>
    ELSE (IF i \in ds THEN db[i].wdir_names ELSE <<>>) \o wdirs_of(db, ds, i + 1)

\* retrieve(ignore_retrieved, given_wdirs) after its call of inspect gave r;
\* filter says that given_wdirs is not None but the list given.
\* Result: [db, raised, chosen, read, results]
retrieve(r, ignore_retrieved, filter, given) ==
    LET unretrieved_jobs == IF ignore_retrieved
                            THEN _get_unretrieved_jobs(r.db)
                            ELSE _get_finished_jobs(r.db)
        unretrieved_wdirs_ == wdirs_of(r.db, unretrieved_jobs, 1)
        unretrieved_wdirs ==
            IF filter
            THEN SelectSeq(unretrieved_wdirs_, LAMBDA k : k \in given)
            ELSE unretrieved_wdirs_
        rd == IF unretrieved_wdirs = <<>>
              THEN [raised |-> FALSE, results |-> <<>>]
              ELSE IF ~compact THEN _read_results(unretrieved_wdirs)
              ELSE [raised |-> cached = <<>>, results |-> cached]
        raised == r.raised \/ rd.raised
    IN  [db |-> IF raised THEN r.db
                ELSE [i \in DOMAIN r.db |->
                        IF i \in unretrieved_jobs THEN mark_retrieved(r.db[i])
                        ELSE r.db[i]],
         raised |-> raised,
         chosen |-> IF r.raised THEN {} ELSE unretrieved_jobs,
         read |-> IF r.raised \/ compact THEN <<>> ELSE unretrieved_wdirs,
         results |-> IF raised THEN <<>> ELSE rd.results]

\* The given_wdirs the caller filters with: cand0
given_wdirs == {0}

Retrieve ==
    \E replies \in Replies, ignore_retrieved \in BOOLEAN, filter \in BOOLEAN :
        LET r == inspect(FALSE, replies)
            t == retrieve(r, ignore_retrieved, filter, given_wdirs)
        IN  /\ database' = t.db
            /\ jobs' = r.jobs
            /\ last' = [NoOp EXCEPT !.op = "retrieve", !.ok = ~t.raised,
                                    !.replies = replies,
                                    !.marked = r.marked,
                                    !.ignore = ignore_retrieved,
                                    !.filter = filter,
                                    !.chosen = t.chosen, !.read = t.read,
                                    !.results = t.results]
            /\ UNCHANGED <<grid, caller, computer, reactor, readers, driver, dlast, mode, batchsize, stored, info_data,
                           wdirs, cached>>

\* --------------------------------------------------------- the batch jobs
\* A running job of the queue works on the wdirs of its batch in order: it
\* creates the next directory, and the engine then leaves a trajectory in
\* it or not.
JobStep ==
    \E i \in DOMAIN database, j \in 1 .. MaxB, c \in Outcomes :
        /\ mode = "queue"
        /\ jobs[i] = "running"
        /\ j \in DOMAIN database[i].wdir_names
        /\ \A h \in 1 .. (j - 1) : wdirs[database[i].wdir_names[h]] # "absent"
        /\ wdirs[database[i].wdir_names[j]] \in {"absent", "empty"}
        /\ wdirs[database[i].wdir_names[j]] = "absent" => c = "empty"
        /\ wdirs[database[i].wdir_names[j]] = "empty" => c # "empty"
        /\ wdirs' = [wdirs EXCEPT ![database[i].wdir_names[j]] = c]
        /\ last' = [NoOp EXCEPT !.op = "job"]
        /\ UNCHANGED <<grid, caller, computer, reactor, readers, driver, dlast, mode, batchsize, database, stored,
                       info_data, cached, jobs>>

\* A job leaves the queue: it completed, failed or hit its time limit.
JobExit ==
    \E i \in DOMAIN database :
        /\ mode = "queue"
        /\ jobs[i] = "running"
        /\ jobs' = [jobs EXCEPT ![i] = "done"]
        /\ last' = [NoOp EXCEPT !.op = "job"]
        /\ UNCHANGED <<grid, caller, computer, reactor, readers, driver, dlast, mode, batchsize, database, stored,
                       info_data, wdirs, cached>>

\* --------------------------------------------------------------- the caller
\* The workflow calls drive.forward with the same frames until the Worker
\* has no running job, and extract.forward after it.  pc is the next call
\* of the caller on the Worker.
NoCaller == [pc |-> "run", frames |-> <<>>]

\* AbstractWorker.get_number_of_running_jobs
get_number_of_running_jobs(db) == Cardinality(_get_running_jobs(db))

\* Scheduler.is_finished for every running job: true of the jobs that are
\* not in the queue
is_finished_replies ==
    {i \in _get_running_jobs(database) : may_be_finished(i)}

\* drive.forward up to and with worker.run(frames); an exception of run
\* ends the call and the workflow calls again.
ForwardRun ==
    /\ caller.pc = "run"
    /\ \/ /\ mode = "queue"
          /\ \E refused \in 0 .. Len(caller.frames) :
                run(caller.frames, [NoEnv EXCEPT !.refused = refused])
       \/ /\ mode = "command"
          /\ \E cp \in [1 .. Len(caller.frames) -> Outcomes],
                asserts \in BOOLEAN :
                run(caller.frames,
                    [NoEnv EXCEPT !.c = outcomes_by_wdir(caller.frames, cp),
                                  !.asserts = asserts])
       \/ /\ mode = "compact"
          /\ \E cp \in [1 .. Len(caller.frames) -> Outcomes] :
                run(caller.frames,
                    [NoEnv EXCEPT !.c = outcomes_by_wdir(caller.frames, cp)])
    /\ caller' = [caller EXCEPT !.pc = IF last'.ok THEN "inspect" ELSE "run"]

\* drive.forward from worker.inspect(resubmit=True) on: without a running
\* job the flag FINISHED is written and the workflow goes on to extract.
ForwardInspect ==
    /\ caller.pc = "inspect"
    /\ LET r == inspect(TRUE, is_finished_replies)
       IN  /\ database' = r.db
           /\ jobs' = r.jobs
           /\ last' = [NoOp EXCEPT !.op = "inspect", !.ok = ~r.raised,
                                   !.resubmit = TRUE,
                                   !.replies = is_finished_replies,
                                   !.marked = r.marked, !.resub = r.resub]
           /\ caller' =
                 [caller EXCEPT
                     !.pc = IF ~r.raised
                               /\ get_number_of_running_jobs(r.db) = 0
                            THEN "extract" ELSE "run"]
    /\ UNCHANGED <<grid, computer, reactor, readers, driver, dlast, mode,
                   batchsize, stored, info_data, wdirs, cached>>

\* extract.forward: with no running job the directory of the cached
\* trajectories is made and the Worker retrieves; after an exception of
\* retrieve the directory exists and retrieve is not called again.
ExtractForward ==
    /\ caller.pc = "extract"
    /\ get_number_of_running_jobs(database) = 0
    /\ LET r == inspect(FALSE, is_finished_replies)
           t == retrieve(r, FALSE, FALSE, {})
       IN  /\ database' = t.db
           /\ jobs' = r.jobs
           /\ last' = [NoOp EXCEPT !.op = "retrieve", !.ok = ~t.raised,
                                   !.replies = is_finished_replies,
                                   !.marked = r.marked,
                                   !.chosen = t.chosen, !.read = t.read,
                                   !.results = t.results]
           /\ caller' = [caller EXCEPT
                            !.pc = IF t.raised THEN "failed" ELSE "done"]
    /\ UNCHANGED <<grid, computer, reactor, readers, driver, dlast, mode,
                   batchsize, stored, info_data, wdirs, cached>>

\* --------------------------------------------------------------- the Driver
\* One working directory of one Driver (GDPy/computation/driver.py,
\* asedriver.py).  A file is represented by its content: the number of
\* frames of traj.xyz, 1 for a present dyn.log or dyn.traj, 0 for a missing
\* file.  The backup gbak.{idx}.{fname} is element idx + 1 of gbak[fname],
\* the snapshot directory {k:04d}.run is runs[k].  restarts counts the calls
\* that restarted from a checkpoint, defaults tells that every call so far
\* had read_ckpt on and the same atoms.  atoms is the structure attached to
\* the driver for the state check ("none": the class default None), which
\* no call of the driver sets.  The frames are written once per
\* step (dump_period = 1).
Files == {"dyn.log", "dyn.traj", "traj.xyz"}

NoFiles == [f \in Files |-> 0]

NoBackups == [f \in Files |-> <<>>]

\* AseDriver.saved_fnames and .removed_fnames without the deviation file,
\* which only a committee calculator writes.  The driver that keeps
\* AbstractDriver.run is given the same lists.
saved_fnames == {"dyn.log", "traj.xyz"}

removed_fnames == {"dyn.log", "dyn.traj", "traj.xyz"}

Tasks == {"min", "md"}

Kinds == {"ase", "abstract"}

\* The snapshot directories in the order of their names
RECURSIVE Sorted(_)
Sorted(ks) ==
    IF ks = {} THEN <<>>
    ELSE LET k == CHOOSE x \in ks : \A y \in ks : x <= y
         IN  <<k>> \o Sorted(ks \ {k})

RECURSIVE SumDropLast(_)
\* Number of frames of the given segments when each is read with ":-1"
SumDropLast(segs) ==
    IF segs = <<>> THEN 0
    ELSE (IF Head(segs) > 0 THEN Head(segs) - 1 ELSE 0)
         + SumDropLast(Tail(segs))

\* The frames of a trajectory carry info["step"] = their position, from 0
Enumerated(n) == [i \in 1 .. n |-> i - 1]

\* AseDriver.read_trajectory: only with a traj.xyz that holds a frame, the
\* backups gbak.0.traj.xyz, gbak.1.traj.xyz ... without their last frame,
\* then traj.xyz; otherwise no frame at all.
ase_read_trajectory(d) ==
    IF d.files["traj.xyz"] > 0
    THEN Enumerated(SumDropLast(d.gbak["traj.xyz"]) + d.files["traj.xyz"])
    ELSE <<>>

\* read_trajectory of a driver that keeps AbstractDriver.run: the
\* trajectories of the snapshots in order, each without its last frame,
\* then the one of the working directory.
abstract_read_trajectory(d) ==
    LET prev_wdirs == Sorted(DOMAIN d.runs)
    IN  Enumerated(SumDropLast([k \in DOMAIN prev_wdirs |->
                                   d.runs[prev_wdirs[k]]["traj.xyz"]])
                   + d.files["traj.xyz"])

read_trajectory(d) ==
    IF d.kind = "ase" THEN ase_read_trajectory(d)
    ELSE abstract_read_trajectory(d)

\* AseDriver.read_force_convergence: the flag of the calculator for its last
\* force evaluation (its SCF cycle), taken as true when it cannot be read.
read_force_convergence_assumed(d) == TRUE

read_force_convergence(d) == d.scf

\* AbstractDriver.read_convergence (ignore_convergence off): with steps > 0
\* the last frame decides, without steps (a single-point calculation) the
\* number of frames, together with the flag of the calculator.
read_convergence_always(d) == TRUE

\* read_convergence without the branch of the single-point calculation
read_convergence_stepped(d) ==
    LET traj_frames == read_trajectory(d)
        nframes == Len(traj_frames)
    IN  /\ nframes > 0
        /\ d.steps > 0
        /\ LET step == traj_frames[nframes]
           IN  IF d.task = "min"
               THEN d.lowfrc \/ step + 1 >= d.steps
               ELSE step + 1 >= d.steps
        /\ read_force_convergence(d)

read_convergence(d) ==
    LET traj_frames == read_trajectory(d)
        nframes == Len(traj_frames)
        converged ==
            /\ nframes > 0
            /\ IF d.steps > 0
               THEN LET step == traj_frames[nframes]
                    IN  IF d.task = "min"
                        THEN d.lowfrc \/ step + 1 >= d.steps
                        ELSE step + 1 >= d.steps
               ELSE nframes = 1
        force_converged == read_force_convergence(d)
    IN  converged /\ force_converged

_verify_checkpoint(d) == d.exists

\* AbstractDriver._save_checkpoint: the snapshot is named after the number
\* of snapshots found, the saved files are moved into it and every other
\* entry but the snapshots is deleted.
_save_checkpoint_first(d) ==
    [d EXCEPT !.runs = [k \in DOMAIN d.runs \cup {0} |->
                           IF k = 0
                           THEN [f \in Files |->
                                    IF f \in saved_fnames THEN d.files[f]
                                    ELSE 0]
                           ELSE d.runs[k]],
              !.files = NoFiles, !.gbak = NoBackups, !.lowfrc = FALSE,
                  !.scf = TRUE]

_save_checkpoint(d) ==
    LET curr_index == Cardinality(DOMAIN d.runs)
        curr_wdir == [f \in Files |->
                         IF f \in saved_fnames THEN d.files[f] ELSE 0]
    IN  [d EXCEPT !.runs = [k \in DOMAIN d.runs \cup {curr_index} |->
                               IF k = curr_index THEN curr_wdir
                               ELSE d.runs[k]],
                  !.files = NoFiles, !.gbak = NoBackups, !.lowfrc = FALSE,
                  !.scf = TRUE]

\* _resume of the driver: the frames of the preserved copies are read and
\* the steps left are the setting's less the frames already produced.
_resume(d) == d.steps - Len(read_trajectory(d))

\* AbstractDriver._cleanup, and the same loop of AseDriver.run
_cleanup(d) ==
    [d EXCEPT !.files = [f \in Files |->
                            IF f \in removed_fnames THEN 0 ELSE d.files[f]],
              !.lowfrc = FALSE]

\* The backup loop of AseDriver.run (AbstractDriver._backup): every present
\* file of saved_fnames is copied to its first free gbak.{idx}.{fname}.
_backup(d) ==
    [d EXCEPT !.gbak = [f \in Files |->
                           IF f \in saved_fnames /\ d.files[f] > 0
                           THEN Append(d.gbak[f], d.files[f])
                           ELSE d.gbak[f]]]

\* The engine asked for `steps` steps.  e.w is the number of frames it gets
\* to write (the first one before any step), e.lowfrc whether the last of
\* them has a maximum force within fmax, e.init whether the dynamics object
\* was created, which creates dyn.log and dyn.traj, e.scf the flag of the
\* calculator after its last force evaluation.  save_trajectory appends.
\* Every exception is caught and logged.
engine_possible(d, steps, resumed, e) ==
    /\ e.w \in 0 .. ((IF steps > 0 THEN steps ELSE 0) + 1)
    /\ e.w > 0 => e.init
    /\ e.lowfrc => (d.task = "min" /\ e.w > (IF resumed THEN 1 ELSE 0))
    /\ e.w = 0 => e.scf

Driver_irun(d, e) ==
    [d EXCEPT !.files = [f \in Files |->
                            IF f = "traj.xyz" THEN d.files[f] + e.w
                            ELSE IF e.init THEN 1 ELSE d.files[f]],
              !.lowfrc = IF e.w > 0 THEN e.lowfrc ELSE d.lowfrc,
              !.scf = IF e.w > 0 THEN e.scf ELSE d.scf]

\* AseDriver.run.  Result: the directory, whether the engine was started
\* and with how many steps, and whether the final assertion failed.
ase_steps_full(d, read_exists, nframes) == d.steps

ase_steps(d, read_exists, nframes) ==
    IF read_exists /\ nframes > 0 THEN d.steps + 1 - nframes ELSE d.steps

AseDriver_run(d, read_exists, e) ==
    LET d0 == [d EXCEPT !.exists = TRUE]
        converged == read_convergence(d0)
        nframes == Len(read_trajectory(d0))
        d1 == IF read_exists THEN _cleanup(_backup(d0)) ELSE d0
        steps == ase_steps(d0, read_exists, nframes)
        restart == ~converged /\ read_exists /\ d.exists
        d2 == IF converged THEN d0
              ELSE Driver_irun([d1 EXCEPT !.restarts =
                                   IF restart THEN @ + 1 ELSE @], e)
    IN  [d |-> d2, ran |-> ~converged, steps |-> steps,
         resumed |-> (read_exists /\ nframes > 0),
         raised |-> (Len(read_trajectory(d2)) = 0),
         returned |-> Len(read_trajectory(d2))]

\* AbstractDriver.run.  It returns the last frame, or None without one.
AbstractDriver_run(d, read_ckpt, system_changed, e) ==
    LET fresh == ~_verify_checkpoint(d)
        converged == ~fresh /\ ~system_changed /\ read_convergence(d)
        resume == ~fresh /\ ~system_changed /\ ~converged /\ read_ckpt
        dsaved == IF resume
                  THEN [_save_checkpoint(d) EXCEPT !.restarts = @ + 1]
                  ELSE d
        steps == IF resume THEN _resume(dsaved) ELSE d.steps
        d1 == IF fresh THEN [d EXCEPT !.exists = TRUE] ELSE _cleanup(dsaved)
        d2 == IF converged THEN d ELSE Driver_irun(d1, e)
    IN  [d |-> d2, ran |-> ~converged, steps |-> steps,
         resumed |-> (resume /\ Len(read_trajectory(d)) > 0),
         raised |-> FALSE,
         returned |-> Len(read_trajectory(d2))]

\* The state check of AbstractDriver.run: the attached atoms, if any, are
\* compared with the input atoms.
system_changed_of(d, atoms) == d.atoms # "none" /\ d.atoms # atoms

Driver_run(d, read_ckpt, system_changed, e) ==
    IF d.kind = "ase" THEN AseDriver_run(d, read_ckpt, e)
    ELSE AbstractDriver_run(d, read_ckpt, system_changed, e)

\* The settings and the kinds of driver, before the first run
NoDriver ==
    [kind |-> "ase", task |-> "md", steps |-> 1, atoms |-> "none",
     exists |-> FALSE,
     files |-> NoFiles, lowfrc |-> FALSE, scf |-> TRUE, gbak |-> NoBackups,
     runs |-> <<>>,
     restarts |-> 0, defaults |-> TRUE]

\* The structures handed to Driver.run
DriverAtoms == {"a", "b"}

\* AseDriverSetting.__post_init__: steps = 0, a single-point calculation,
\* is handed to the engine as steps = -1
post_init_steps(steps) == IF steps = 0 THEN 0 - 1 ELSE steps

Drivers ==
    {d \in {[NoDriver EXCEPT !.kind = k, !.task = t, !.steps = n,
                              !.atoms = a] :
                k \in Kinds, t \in Tasks, n \in 1 .. MaxSteps,
                a \in DriverAtoms \cup {"none"}} :
        d.kind = "ase" => d.atoms = "none"}
      \cup {[NoDriver EXCEPT !.kind = "ase", !.task = t,
                             !.steps = post_init_steps(0)] : t \in Tasks}

NoCall ==
    [op |-> "init", atoms |-> "a", read_ckpt |-> TRUE,
     system_changed |-> FALSE,
     fresh |-> FALSE, ran |-> FALSE, resumed |-> FALSE, steps |-> 0,
     w |-> 0]

\* Driver.run(atoms, read_ckpt) on the working directory
NoEngine == [w |-> 0, lowfrc |-> FALSE, init |-> FALSE, scf |-> TRUE]

Engines ==
    [w : 0 .. (MaxSteps + 1), lowfrc : BOOLEAN, init : BOOLEAN,
     scf : BOOLEAN]

DriverRun ==
    \E read_ckpt \in BOOLEAN, atoms \in DriverAtoms :
      LET system_changed == system_changed_of(driver, atoms)
      IN
      /\ driver.kind = "ase" => atoms = "a"
      /\ \E plan \in {Driver_run(driver, read_ckpt, system_changed,
                                 NoEngine)} :
         \E e \in IF plan.ran
                  THEN {x \in Engines :
                          engine_possible(driver, plan.steps, plan.resumed,
                                          x)}
                  ELSE {NoEngine} :
         \E r \in {Driver_run(driver, read_ckpt, system_changed, e)} :
            /\ r.d.files["traj.xyz"] <= MaxFrames
            /\ \A f \in Files : Len(r.d.gbak[f]) <= MaxBackups
            /\ r.d.restarts <= MaxBackups
            /\ driver' = [r.d EXCEPT !.defaults =
                              /\ @
                              /\ read_ckpt
                              /\ dlast.op = "run" => atoms = dlast.atoms]
            /\ dlast' = [op |-> "run", atoms |-> atoms,
                         read_ckpt |-> read_ckpt,
                         system_changed |-> system_changed,
                         fresh |-> ~driver.exists,
                         ran |-> r.ran, resumed |-> r.resumed,
                         steps |-> r.steps, w |-> e.w]
            /\ UNCHANGED <<grid, caller, computer, reactor, readers, mode, batchsize, database, stored, info_data,
                           wdirs, cached, jobs, last>>

\* ------------------------------------------------- parallel _read_results
\* The lists of distinct working directories handed to _read_results
WdirNames == {"cand0", "cand1", "cand2"}

WdirLists ==
    {s \in SeqsUpTo(WdirNames, MaxReaders) :
        s # <<>> /\ \A i, j \in DOMAIN s : i # j => s[i] # s[j]}

\* No read under way; directory is the directory of the Worker's driver
NoReaders ==
    [n_jobs |-> 1, wdirs |-> <<>>, pc |-> <<>>, directory |-> "none",
     own |-> <<>>, results |-> <<>>, before |-> "none"]

\* The calls of _iread_results joblib is running
active(r) == {j \in DOMAIN r.pc : r.pc[j] \in {"started", "directed"}}

\* _read_results: one delayed _iread_results(self.driver, wdir, ...) for
\* every wdir, under Parallel(n_jobs)
ReadResults ==
    \E n \in 1 .. MaxJobs, w \in WdirLists :
        /\ \A j \in DOMAIN readers.pc : readers.pc[j] = "done"
        /\ readers' = [n_jobs |-> n, wdirs |-> w,
                       pc |-> [i \in DOMAIN w |-> "waiting"],
                       directory |-> readers.directory,
                       own |-> [i \in DOMAIN w |-> "none"],
                       results |-> [i \in DOMAIN w |-> "none"],
                       before |-> readers.directory]
        /\ UNCHANGED <<grid, caller, computer, reactor, driver, dlast, mode, batchsize, database, stored,
                       info_data, wdirs, cached, jobs, last>>

\* joblib starts the next call: with n_jobs = 1 in this process, on the
\* driver object of the Worker; with more jobs in a worker process, on the
\* pickled copy of that object (own).
ReaderDispatch ==
    \E i \in DOMAIN readers.pc :
        /\ readers.pc[i] = "waiting"
        /\ \A j \in 1 .. (i - 1) : readers.pc[j] # "waiting"
        /\ Cardinality(active(readers)) < readers.n_jobs
        /\ readers' = [readers EXCEPT
                          !.pc[i] = "started",
                          !.own[i] = IF readers.n_jobs = 1 THEN "none"
                                     ELSE readers.directory]
        /\ UNCHANGED <<grid, caller, computer, reactor, driver, dlast, mode, batchsize, database, stored,
                       info_data, wdirs, cached, jobs, last>>

\* _iread_results: driver.directory = wdir
ReaderDirectory ==
    \E i \in DOMAIN readers.pc :
        /\ readers.pc[i] = "started"
        /\ readers' = IF readers.n_jobs = 1
                      THEN [readers EXCEPT !.pc[i] = "directed",
                                           !.directory = readers.wdirs[i]]
                      ELSE [readers EXCEPT !.pc[i] = "directed",
                                           !.own[i] = readers.wdirs[i]]
        /\ UNCHANGED <<grid, caller, computer, reactor, driver, dlast, mode, batchsize, database, stored,
                       info_data, wdirs, cached, jobs, last>>

\* _iread_results: driver.read_converged() or driver.read_trajectory(),
\* which read the directory of the driver; the result is named by the
\* directory it was read from.
ReaderRead ==
    \E i \in DOMAIN readers.pc :
        /\ readers.pc[i] = "directed"
        /\ readers' = [readers EXCEPT
                          !.pc[i] = "done",
                          !.results[i] = IF readers.n_jobs = 1
                                         THEN readers.directory
                                         ELSE readers.own[i]]
        /\ UNCHANGED <<grid, caller, computer, reactor, driver, dlast, mode, batchsize, database, stored,
                       info_data, wdirs, cached, jobs, last>>

\* -------------------------------------------------- GridDriverBasedWorker
\* The grid Worker with the local scheduler.  Structures, drivers and wdirs
\* are named by their index from 0: drivers[i] is i, cand{i} is i.  A driver
\* is strict or not: read_convergence of a strict driver is true of a wdir
\* with content "high" only, that of another driver of every content.
\* checked and read are the pairs of wdir and driver of the last inspect and
\* of the last retrieve.
NoWdir == [driver |-> 0 - 1, content |-> "absent"]

NoGrid ==
    [n |-> 1, batchsize |-> 1, strict |-> <<FALSE>>, db |-> <<>>,
     wdirs |-> [k \in 0 .. (MaxGrid - 1) |-> NoWdir],
     op |-> "none", error |-> "none", checked |-> {}, read |-> <<>>]

Grids ==
    {[NoGrid EXCEPT !.n = n, !.batchsize = b, !.strict = s] :
        n \in 1 .. MaxGrid, b \in 1 .. MaxB,
        s \in UNION {[1 .. k -> BOOLEAN] : k \in 1 .. MaxGrid}}

\* batch = None of run
NoBatch == 0 - 1

\* AbstractWorker._split_groups of the package of the grid Worker
grid_split_groups(num_structures, B) == _split_groups(num_structures, B)

\* GridDriverBasedWorker._prepare_batches: the selected_indices of every
\* batch, which are the numbers of its wdirs as well
grid_prepare_batches(g) ==
    LET se == grid_split_groups(g.n, g.batchsize)
    IN  [ib \in 1 .. Len(se[1]) |->
            [x \in 1 .. (se[2][ib] - se[1][ib]) |-> se[1][ib] + x - 1]]

\* run_grid_computations_in_command over the structures of batch_indices:
\* the structure x runs in cand{x} with drivers[x]
RECURSIVE run_grid_computations_in_command(_, _, _, _)
run_grid_computations_in_command(batch_indices, j, wd, c) ==
    IF j > Len(batch_indices) THEN wd
    ELSE run_grid_computations_in_command(
            batch_indices, j + 1,
            [wd EXCEPT ![batch_indices[j]] =
                [driver |-> batch_indices[j], content |-> c[batch_indices[j]]]],
            c)

\* _run_one_batch with the local scheduler
_run_one_batch(st, ib, batch_indices, c) ==
    [st EXCEPT
        !.wdirs = run_grid_computations_in_command(batch_indices, 1, @, c),
        !.db = Append(@, [batch |-> ib, wdir_names |-> batch_indices,
                          queued |-> TRUE, finished |-> FALSE,
                          retrieved |-> FALSE])]

\* The loop of run over the batches from the index ib on
RECURSIVE grid_run_loop(_, _, _, _, _)
grid_run_loop(st, batches, ib, batch, c) ==
    IF ib >= Len(batches) THEN st
    ELSE IF batch # NoBatch /\ ib # batch
    THEN grid_run_loop(st, batches, ib + 1, batch, c)
    ELSE grid_run_loop(_run_one_batch(st, ib, batches[ib + 1], c),
                       batches, ib + 1, batch, c)

\* q["batch"] of a document, which has no such key, raises
grid_run_error(g) ==
    IF Len(g.strict) # g.n THEN "AssertionError"
    ELSE IF queued_docs(g.db) # {} THEN "KeyError"
    ELSE "none"

\* GridDriverBasedWorker.run(structures, batch)
GridRun ==
    \E batch \in {NoBatch} \cup (0 .. (Len(grid_prepare_batches(grid)) - 1)),
       c \in [0 .. (MaxGrid - 1) -> {"low", "high"}] :
        /\ \A k \in 0 .. (MaxGrid - 1) : k >= grid.n => c[k] = "low"
        /\ grid' =
              IF grid_run_error(grid) # "none"
              THEN [grid EXCEPT !.op = "run", !.error = grid_run_error(grid),
                                !.checked = {}, !.read = <<>>]
              ELSE [grid_run_loop(grid, grid_prepare_batches(grid), 0,
                                  batch, c)
                       EXCEPT !.op = "run", !.error = "none",
                              !.checked = {}, !.read = <<>>]
        /\ UNCHANGED <<caller, computer, reactor, readers, driver, dlast,
                       mode, batchsize, database, stored, info_data, wdirs,
                       cached, jobs, last>>

\* self.drivers[i] for the i-th wdir of a list, i from 1 here
enumerated_driver(wdir_names, i) == i - 1

\* read_convergence of the driver d in the wdir k
grid_read_convergence(g, d, k) ==
    g.wdirs[k].content = "high" \/ ~g.strict[d + 1]

\* The convergence test of _inspect_and_update over the wdirs of one job:
\* the loop ends at the first driver that reports no convergence.
\* Result: [checked, is_finished]
RECURSIVE inspect_wdirs(_, _, _, _)
inspect_wdirs(g, wdir_names, i, checked) ==
    IF i > Len(wdir_names) THEN [checked |-> checked, is_finished |-> TRUE]
    ELSE LET curr_driver == enumerated_driver(wdir_names, i)
             pair == [wdir |-> wdir_names[i], driver |-> curr_driver]
         IN  IF ~grid_read_convergence(g, curr_driver, wdir_names[i])
             THEN [checked |-> checked \cup {pair}, is_finished |-> FALSE]
             ELSE inspect_wdirs(g, wdir_names, i + 1, checked \cup {pair})

\* _inspect_and_update over the running jobs from the document i on; the
\* local scheduler reports every job finished
RECURSIVE _inspect_and_update(_, _)
_inspect_and_update(g, i) ==
    IF i > Len(g.db) THEN g
    ELSE IF i \notin _get_running_jobs(g.db)
    THEN _inspect_and_update(g, i + 1)
    ELSE IF \E j \in DOMAIN g.db[i].wdir_names :
               g.wdirs[g.db[i].wdir_names[j]].content = "absent"
    THEN _inspect_and_update(g, i + 1)
    ELSE LET r == inspect_wdirs(g, g.db[i].wdir_names, 1, g.checked)
         IN  _inspect_and_update(
                [g EXCEPT !.checked = r.checked,
                          !.db[i].finished = r.is_finished],
                i + 1)

\* GridDriverBasedWorker.inspect
GridInspect ==
    /\ grid' = [_inspect_and_update([grid EXCEPT !.checked = {}], 1)
                   EXCEPT !.op = "inspect", !.error = "none", !.read = <<>>]
    /\ UNCHANGED <<caller, computer, reactor, readers, driver, dlast, mode,
                   batchsize, database, stored, info_data, wdirs, cached,
                   jobs, last>>

\* _retrieve_and_update over the jobs of the set unretrieved_jobs
_retrieve_and_update(g, unretrieved_jobs) ==
    LET unretrieved_wdirs == wdirs_of(g.db, unretrieved_jobs, 1)
    IN  [g EXCEPT
            !.read = [i \in 1 .. Len(unretrieved_wdirs) |->
                        [wdir |-> unretrieved_wdirs[i],
                         driver |-> enumerated_driver(unretrieved_wdirs, i)]],
            !.db = [i \in DOMAIN g.db |->
                       IF i \in unretrieved_jobs
                       THEN [g.db[i] EXCEPT !.retrieved = TRUE]
                       ELSE g.db[i]]]

\* GridDriverBasedWorker.retrieve(include_retrieved)
GridRetrieve ==
    \E include_retrieved \in BOOLEAN :
        LET g == _inspect_and_update([grid EXCEPT !.checked = {}], 1)
            unretrieved_jobs == IF ~include_retrieved
                                THEN _get_unretrieved_jobs(g.db)
                                ELSE _get_finished_jobs(g.db)
        IN  /\ grid' = [_retrieve_and_update(g, unretrieved_jobs)
                           EXCEPT !.op = "retrieve", !.error = "none"]
            /\ UNCHANGED <<caller, computer, reactor, readers, driver, dlast,
                           mode, batchsize, database, stored, info_data,
                           wdirs, cached, jobs, last>>

\* ------------------------------------------------------- ComputerVariable
\* The computer before the broadcast.  Potentials and driver variants are
\* named by their index in the lists potters and drivers, from 0.
NoComputer ==
    [num_potters |-> 1, num_drivers |-> 1, scheduler |-> "local",
     use_single |-> FALSE, share_wdir |-> FALSE, retain_info |-> FALSE,
     batchsize |-> 1, done |-> FALSE, error |-> "none", workers |-> <<>>]

SchedulerNames == {"local", "slurm"}

Computers ==
    {[NoComputer EXCEPT !.num_potters = np, !.num_drivers = nd,
                        !.scheduler = s, !.use_single = u,
                        !.share_wdir = w, !.retain_info = i] :
        np \in 1 .. MaxPotters, nd \in 1 .. MaxVariants,
        s \in SchedulerNames, u \in BOOLEAN, w \in BOOLEAN, i \in BOOLEAN}

\* itertools.product(range(num_potters), range(num_drivers)) as a list
pairs(c) ==
    [i \in 1 .. (c.num_potters * c.num_drivers) |->
        [p_i |-> (i - 1) \div c.num_drivers, d_i |-> (i - 1) % c.num_drivers]]

\* potters[p_i].create_driver(drivers[d_i])
create_driver(p_i, d_i) == [potter |-> p_i, variant |-> d_i]

\* The index of the potential handed to a SingleWorker
single_potter(pair) == pair.d_i

\* The Worker created for the i-th pair
broadcast_worker(c, i) ==
    LET pair == pairs(c)[i]
    IN  [kind |-> IF ~c.use_single
                  THEN IF c.scheduler = "local" THEN "command" ELSE "queue"
                  ELSE "single",
         potter |-> IF ~c.use_single THEN pair.p_i ELSE single_potter(pair),
         driver |-> create_driver(pair.p_i, pair.d_i),
         share_wdir |-> c.share_wdir,
         retain_info |-> c.retain_info,
         directory |-> i - 1,
         batchsize |-> c.batchsize]

\* potters[...] of an index past the end of the list raises IndexError
broadcast_error(c) ==
    IF \E i \in DOMAIN pairs(c) :
          c.use_single /\ single_potter(pairs(c)[i]) >= c.num_potters
    THEN "IndexError"
    ELSE "none"

\* ComputerVariable._broadcast_workers
BroadcastWorkers ==
    /\ ~computer.done
    /\ computer' =
          [computer EXCEPT
              !.done = TRUE,
              !.error = broadcast_error(computer),
              !.workers =
                  IF broadcast_error(computer) = "none"
                  THEN [i \in DOMAIN pairs(computer) |->
                           broadcast_worker(computer, i)]
                  ELSE <<>>]
    /\ UNCHANGED <<grid, caller, reactor, readers, driver, dlast, mode, batchsize,
                   database, stored, info_data, wdirs, cached, jobs, last>>

\* ------------------------------------------------------ VaspStringReactor
\* The reactor before its run: the setting and an empty directory.
\* outcars[j] is the number of frames of the OUTCAR of the replica j (the
\* directory 0j/), lines the step numbers of the "n F=" lines of vasp.out,
\* flag whether vasp.out has a line "reached required accuracy", lowfrc
\* whether the maximum force of the climbing image is within fmax.
NoReactor ==
    [nimages |-> 3, steps |-> 1, exists |-> FALSE, outcars |-> <<>>,
     vaspout |-> FALSE, lines |-> <<>>, flag |-> FALSE, lowfrc |-> FALSE]

Reactors ==
    {[NoReactor EXCEPT !.nimages = n, !.steps = s] :
        n \in 2 .. MaxImages, s \in 1 .. MaxSteps}

\* read_vaspout: the largest step number of the lines "n F=", 0 without one
read_vaspout_none(lines) == 0

read_vaspout(lines) ==
    LET steps == {0} \cup Range(lines)
    IN  CHOOSE s \in steps : \A t \in steps : t <= s

\* AbstractStringReactor.read_convergence: the force criterion of the
\* climbing image
AbstractStringReactor_read_convergence(r) == r.lowfrc

\* VaspStringReactor.read_convergence
VaspStringReactor_read_convergence(r) ==
    LET converged == AbstractStringReactor_read_convergence(r)
    IN  IF r.vaspout
        THEN \/ converged
             \/ read_vaspout(r.lines) >= r.steps
             \/ r.flag
        ELSE converged

\* The frame of the replica j at the optimiser step i
replica_frame(j, i) == [image |-> j, step |-> i]

\* images[0] and images[-1] of images.xyz, the initial and the final state
ini_atoms == [image |-> 0, step |-> 0]

fin_atoms(r) == [image |-> r.nimages - 1, step |-> 0]

\* curr_frames of the step i
curr_frames(r, i) ==
    <<ini_atoms>>
      \o [j \in 1 .. (r.nimages - 2) |-> replica_frame(j, i)]
      \o <<fin_atoms(r)>>

\* As many steps as there are in any OUTCAR, not as few
nsteps_max(nframes_list) ==
    CHOOSE n \in Range(nframes_list) : \A k \in Range(nframes_list) : k <= n

\* min(nframes_list)
nsteps_min(nframes_list) ==
    CHOOSE n \in Range(nframes_list) : \A k \in Range(nframes_list) : n <= k

\* VaspStringReactor._read_a_single_trajectory.  Result: the exception it
\* ends in, if any, and the frames it returns.
_read_a_single_trajectory(r) ==
    LET nframes_list == [j \in 1 .. (r.nimages - 2) |-> r.outcars[j]]
    IN  IF ~r.exists
        THEN [error |-> "FileNotFoundError", frames |-> <<>>]
        ELSE IF nframes_list = <<>>
        THEN [error |-> "ValueError", frames |-> <<>>]
        ELSE [error |-> "none",
              frames |->
                 [i \in 1 .. nsteps_min(nframes_list) |-> curr_frames(r, i)]]

\* What the engine leaves in the directory of a run from scratch with nsw =
\* steps: the OUTCARs of the intermediate replicas, which may hold different
\* numbers of frames when the calculation did not finish, and vasp.out.
reactor_engine_possible(r, e) ==
    /\ DOMAIN e.outcars = 1 .. (r.nimages - 2)
    /\ \A j \in DOMAIN e.outcars : e.outcars[j] \in 0 .. r.steps
    /\ e.lines \in {[i \in 1 .. k |-> i] : k \in 0 .. r.steps}
    /\ ~e.vaspout => (e.lines = <<>> /\ ~e.flag)

ReactorEngines ==
    [outcars : SeqsUpTo(0 .. MaxSteps, MaxImages - 2),
     vaspout : BOOLEAN,
     lines : {[i \in 1 .. k |-> i] : k \in 0 .. MaxSteps},
     flag : BOOLEAN, lowfrc : BOOLEAN]

\* VaspStringReactor._irun from scratch (ckpt_wdir is None): images.xyz and
\* the replica directories are written and the engine runs; every exception
\* is caught and logged.
ReactorIrun ==
    \E e \in {x \in ReactorEngines : reactor_engine_possible(reactor, x)} :
        /\ ~reactor.exists
        /\ reactor' = [reactor EXCEPT !.exists = TRUE,
                                      !.outcars = e.outcars,
                                      !.vaspout = e.vaspout,
                                      !.lines = e.lines,
                                      !.flag = e.flag,
                                      !.lowfrc = e.lowfrc]
        /\ UNCHANGED <<grid, caller, computer, readers, driver, dlast, mode, batchsize, database,
                       stored, info_data, wdirs, cached, jobs, last>>

Init ==
    /\ driver = NoDriver
    /\ dlast = NoCall
    /\ grid = NoGrid
    /\ caller = NoCaller
    /\ computer = NoComputer
    /\ reactor = NoReactor
    /\ readers = NoReaders
    /\ mode \in Modes
    /\ batchsize \in 1 .. MaxB
    /\ database = <<>>
    /\ stored = {}
    /\ info_data = <<>>
    /\ wdirs = [k \in CandIds |-> "absent"]
    /\ cached = <<>>
    /\ jobs = <<>>
    /\ last = NoOp

Next ==
    \/ Run
    \/ Inspect
    \/ Retrieve
    \/ JobStep
    \/ JobExit

Spec == Init /\ [][Next]_vars

\* The caller loop run -> inspect(resubmit=True) -> retrieve on one list of
\* frames, next to the jobs of the queue.  The caller goes on calling; a
\* job in the queue leaves it at some time; a job that is (re)submitted
\* again and again gets to work on its wdirs.
InitLoop ==
    /\ driver = NoDriver
    /\ dlast = NoCall
    /\ grid = NoGrid
    /\ caller \in {[NoCaller EXCEPT !.frames = S] : S \in StruLists}
    /\ computer = NoComputer
    /\ reactor = NoReactor
    /\ readers = NoReaders
    /\ mode \in Modes
    /\ batchsize \in 1 .. MaxB
    /\ database = <<>>
    /\ stored = {}
    /\ info_data = <<>>
    /\ wdirs = [k \in CandIds |-> "absent"]
    /\ cached = <<>>
    /\ jobs = <<>>
    /\ last = NoOp

NextLoop ==
    \/ ForwardRun
    \/ ForwardInspect
    \/ ExtractForward
    \/ JobStep
    \/ JobExit

SpecLoop ==
    /\ InitLoop
    /\ [][NextLoop]_vars
    /\ WF_vars(ForwardRun)
    /\ WF_vars(ForwardInspect)
    /\ WF_vars(ExtractForward)
    /\ WF_vars(JobExit)
    /\ SF_vars(JobStep)

\* Worker.run alone, over several longer structure lists
NextRun == RunWide

SpecRun == Init /\ [][NextRun]_vars

\* Worker.run alone, over structures with positions, masks and info
InitMasked ==
    /\ driver = NoDriver
    /\ dlast = NoCall
    /\ grid = NoGrid
    /\ caller = NoCaller
    /\ computer = NoComputer
    /\ reactor = NoReactor
    /\ readers = NoReaders
    /\ mode \in Modes
    /\ batchsize = 1
    /\ database = <<>>
    /\ stored = {}
    /\ info_data = <<>>
    /\ wdirs = [k \in CandIds |-> "absent"]
    /\ cached = <<>>
    /\ jobs = <<>>
    /\ last = NoOp

NextMasked == RunMasked

SpecMasked == InitMasked /\ [][NextMasked]_vars

\* Worker.run on Workers of any batchsize, 0 included, alone and started
\* too close to the Worker.run of another Worker on the same directory
InitFatal ==
    /\ driver = NoDriver
    /\ dlast = NoCall
    /\ grid = NoGrid
    /\ caller = NoCaller
    /\ computer = NoComputer
    /\ reactor = NoReactor
    /\ readers = NoReaders
    /\ mode \in Modes
    /\ batchsize \in 0 .. MaxB
    /\ database = <<>>
    /\ stored = {}
    /\ info_data = <<>>
    /\ wdirs = [k \in CandIds |-> "absent"]
    /\ cached = <<>>
    /\ jobs = <<>>
    /\ last = NoOp

NextFatal ==
    \/ RunFatal
    \/ RunRace

SpecFatal == InitFatal /\ [][NextFatal]_vars

\* The readers of one _read_results after another, on one Worker
InitRead ==
    /\ driver = NoDriver
    /\ dlast = NoCall
    /\ grid = NoGrid
    /\ caller = NoCaller
    /\ computer = NoComputer
    /\ reactor = NoReactor
    /\ readers = NoReaders
    /\ mode = "command"
    /\ batchsize = 1
    /\ database = <<>>
    /\ stored = {}
    /\ info_data = <<>>
    /\ wdirs = [k \in CandIds |-> "absent"]
    /\ cached = <<>>
    /\ jobs = <<>>
    /\ last = NoOp

NextRead ==
    \/ ReadResults
    \/ ReaderDispatch
    \/ ReaderDirectory
    \/ ReaderRead

SpecRead == InitRead /\ [][NextRead]_vars

\* One grid Worker: run, inspect and retrieve
InitGrid ==
    /\ driver = NoDriver
    /\ dlast = NoCall
    /\ grid \in {g \in Grids : Len(g.strict) = g.n}
    /\ caller = NoCaller
    /\ computer = NoComputer
    /\ reactor = NoReactor
    /\ readers = NoReaders
    /\ mode = "command"
    /\ batchsize = 1
    /\ database = <<>>
    /\ stored = {}
    /\ info_data = <<>>
    /\ wdirs = [k \in CandIds |-> "absent"]
    /\ cached = <<>>
    /\ jobs = <<>>
    /\ last = NoOp

NextGrid ==
    \/ GridRun
    \/ GridInspect
    \/ GridRetrieve

SpecGrid == InitGrid /\ [][NextGrid]_vars

\* One computer and its broadcast
InitComputer ==
    /\ driver = NoDriver
    /\ dlast = NoCall
    /\ grid = NoGrid
    /\ caller = NoCaller
    /\ computer \in Computers
    /\ reactor = NoReactor
    /\ readers = NoReaders
    /\ mode = "command"
    /\ batchsize = 1
    /\ database = <<>>
    /\ stored = {}
    /\ info_data = <<>>
    /\ wdirs = [k \in CandIds |-> "absent"]
    /\ cached = <<>>
    /\ jobs = <<>>
    /\ last = NoOp

NextComputer == BroadcastWorkers

SpecComputer == InitComputer /\ [][NextComputer]_vars

\* One run of one reactor in an empty directory
InitReactor ==
    /\ driver = NoDriver
    /\ dlast = NoCall
    /\ grid = NoGrid
    /\ caller = NoCaller
    /\ computer = NoComputer
    /\ readers = NoReaders
    /\ reactor \in Reactors
    /\ mode = "command"
    /\ batchsize = 1
    /\ database = <<>>
    /\ stored = {}
    /\ info_data = <<>>
    /\ wdirs = [k \in CandIds |-> "absent"]
    /\ cached = <<>>
    /\ jobs = <<>>
    /\ last = NoOp

NextReactor == ReactorIrun

SpecReactor == InitReactor /\ [][NextReactor]_vars

\* Driver.run alone, again and again on one working directory
InitDriver ==
    /\ driver \in Drivers
    /\ dlast = NoCall
    /\ grid = NoGrid
    /\ caller = NoCaller
    /\ computer = NoComputer
    /\ reactor = NoReactor
    /\ readers = NoReaders
    /\ mode = "command"
    /\ batchsize = 1
    /\ database = <<>>
    /\ stored = {}
    /\ info_data = <<>>
    /\ wdirs = [k \in CandIds |-> "absent"]
    /\ cached = <<>>
    /\ jobs = <<>>
    /\ last = NoOp

NextDriver == DriverRun

SpecDriver == InitDriver /\ [][NextDriver]_vars

\* ------------------------------------------------------------------ claims
\* The number of batches of n structures in batches of b
NBatches(n, b) == (n + b - 1) \div b

\* The wdirs named by the document i
WdirSet(i) == Range(database[i].wdir_names)

\* C1: the flags queued, finished and retrieved of a BatchRecord only go from
\* false to true, in the order queued, finished, retrieved; no operation of
\* the Worker sets a flag back to false or removes a record.
C1_FlagsMonotone ==
    [][ /\ Len(database') >= Len(database)
        /\ \A i \in DOMAIN database :
              /\ database'[i].uid = database[i].uid
              /\ database[i].queued => database'[i].queued
              /\ database[i].finished => database'[i].finished
              /\ database[i].retrieved => database'[i].retrieved
        /\ \A i \in DOMAIN database' :
              /\ database'[i].retrieved => database'[i].finished
              /\ database'[i].finished => database'[i].queued ]_vars

\* A run, an inspect and a retrieve have acted on a record that went through
\* the three flags, and a later run found it
C1_Witness ==
    /\ last.op = "run"
    /\ last.skipped # {}
    /\ \E i \in DOMAIN database : database[i].retrieved

\* Worker.run(S) returned and every document of the database is of this run:
\* the database was empty before
RunOnEmptyDatabase ==
    /\ last.op = "run"
    /\ last.ok
    /\ Len(database) = Cardinality(last.ran)

\* ceil(N/B) queued records whose wdir_names are pairwise disjoint and cover
\* cand0 .. cand(N-1)
BatchesOfFreshRun ==
    LET N == Len(last.S)
    IN  /\ Cardinality({i \in DOMAIN database : database[i].queued})
               = NBatches(N, batchsize)
        /\ UNION {WdirSet(i) : i \in DOMAIN database} = 0 .. (N - 1)
        /\ \A i, j \in DOMAIN database :
              i # j => WdirSet(i) \cap WdirSet(j) = {}

\* C2 as stated: after Worker.run(S) on an empty database with |S| = N and
\* batchsize B, exactly ceil(N/B) records are queued, the union of their
\* wdir_names is cand0 .. cand(N-1) and two records share no wdir.
C2_RunOnEmptyDatabase == RunOnEmptyDatabase => BatchesOfFreshRun

\* C2 amended: the same after Worker.run(S) on an empty database in a
\* directory whose info table lists no structure of another list.
C2_RunOnFreshDirectory ==
    (RunOnEmptyDatabase /\ Len(info_data) = Len(last.S)) => BatchesOfFreshRun

\* A run of three structures in batches of two on a fresh directory
C2_Witness ==
    /\ RunOnEmptyDatabase
    /\ Len(info_data) = Len(last.S)
    /\ Len(last.S) = 3
    /\ batchsize = 2
    /\ Len(database) = 2

\* Every batch of the list S has a record
AllRecorded(S) ==
    \A ig \in 0 .. (NBatches(Len(S), batchsize) - 1) :
        \E i \in DOMAIN database :
            /\ database[i].md5 = inp_stru_md5(S)
            /\ database[i].group_number = ig

\* C3: Worker.run(S) on a list S all of whose batches are recorded inserts
\* no record, submits nothing and leaves the JobDatabase as it was, however
\* often it is repeated and whatever inspect and retrieve did in between.
C3_RerunIdempotent ==
    [][ (last'.op = "run" /\ AllRecorded(last'.S)) =>
            /\ database' = database
            /\ jobs' = jobs
            /\ last'.ran = {}
            /\ last'.ok ]_vars

\* A re-run skipped both batches of a list after a retrieve
C3_Witness ==
    /\ last.op = "run"
    /\ last.ran = {}
    /\ Cardinality(last.skipped) = 2
    /\ \E i \in DOMAIN database : database[i].retrieved

\* C4: Worker.run(S) skips batch ig exactly when the JobDatabase holds a
\* record with the stru_id of S and the batch index ig, and inserts one
\* record for every other batch; records of another stru_id with the same
\* batch index never block a batch.
C4_SkipIffRecorded ==
    last.op = "run" =>
        \A ig \in last.skipped \cup last.ran :
            Cardinality({i \in DOMAIN database :
                            /\ database[i].md5 = inp_stru_md5(last.S)
                            /\ database[i].group_number = ig}) = 1

\* C5: for a stru_id whose Worker.run returned, the wdir_names of its
\* records cover the ids of its structures, and every cand{k} is named by at
\* most one record of the whole database.
C5_WdirOwnership ==
    (last.op = "run" /\ last.ok) =>
        LET md5 == inp_stru_md5(last.S)
            ids == {info_data[k].id :
                       k \in {h \in DOMAIN info_data : info_data[h].md5 = md5}}
            mine == {i \in DOMAIN database : database[i].md5 = md5}
        IN  /\ UNION {WdirSet(i) : i \in mine} = ids
            /\ \A i, j \in DOMAIN database :
                  i # j => WdirSet(i) \cap WdirSet(j) = {}

\* Every wdir of the document i exists
AllWdirsExist(i) ==
    \A j \in DOMAIN database[i].wdir_names :
        wdirs[database[i].wdir_names[j]] # "absent"

\* C6: without _compact, inspect sets finished on a record only if the
\* record is queued, Scheduler.is_finished returned true for it and every
\* wdir of wdir_names exists; for a record for which is_finished returned
\* false it changes no flag and submits nothing.
C6_InspectNormal ==
    [][ (last'.op \in {"inspect", "retrieve"} /\ ~compact) =>
            \A i \in DOMAIN database :
                /\ (database'[i].finished /\ ~database[i].finished) =>
                      /\ database[i].queued
                      /\ i \in last'.replies
                      /\ AllWdirsExist(i)
                /\ i \notin last'.replies =>
                      /\ database'[i].finished = database[i].finished
                      /\ last'.op = "inspect" => database'[i] = database[i]
                      /\ jobs'[i] = jobs[i]
                      /\ \A k \in DOMAIN last'.resub : last'.resub[k] # i ]_vars

\* An inspect of the queue marked one job finished while is_finished
\* returned false for another job that had left the queue
C6_Witness ==
    /\ mode = "queue"
    /\ last.op = "inspect"
    /\ last.marked # {}
    /\ \E i \in DOMAIN database :
          /\ ~database[i].finished
          /\ jobs[i] = "done"
          /\ i \notin last.replies

\* Every wdir of the document i has a frame in cached.xyz
AllWdirsCached(i) == WdirSet(i) \subseteq Range(cached)

\* C7: with _compact, after inspect a record is finished exactly when every
\* wdir of its wdir_names has a frame in _data/cached.xyz, also when the
\* cache holds frames of other batches (is_finished of the local scheduler
\* is true for every record).
C7_InspectCompact ==
    (compact /\ last.op = "inspect" /\ last.ok) =>
        \A i \in DOMAIN database : database[i].finished <=> AllWdirsCached(i)

\* The wdirs of the document i are valid, in the mode of the Worker
WdirsValid(i) == IF compact THEN AllWdirsCached(i) ELSE AllWdirsExist(i)

\* C8: for a queued, unfinished record for which is_finished returned true
\* and whose wdirs are not all valid, inspect leaves finished false and
\* calls Scheduler.submit exactly once when resubmit is true and not at all
\* when it is false; this holds in every call, whatever the number of
\* earlier resubmissions of the batch.
C8_ResubmitOncePerCall ==
    [][ (last'.op = "inspect" /\ last'.ok) =>
            \A i \in DOMAIN database :
                (/\ database[i].queued
                 /\ ~database[i].finished
                 /\ i \in last'.replies
                 /\ ~WdirsValid(i)) =>
                    /\ ~database'[i].finished
                    /\ Cardinality({k \in DOMAIN last'.resub :
                                       last'.resub[k] = i})
                           = IF last'.resubmit THEN 1 ELSE 0
                    /\ (last'.resubmit /\ mode = "queue") =>
                           jobs'[i] = "running"
                    /\ ~last'.resubmit => jobs'[i] = jobs[i] ]_vars

\* One inspect resubmitted two jobs that left the queue without their wdirs
C8_Witness ==
    /\ mode = "queue"
    /\ last.op = "inspect"
    /\ last.resubmit
    /\ Len(last.resub) = 2
    /\ \A i \in DOMAIN database : ~database[i].finished /\ jobs[i] = "running"

\* The records retrieve chooses after its inspect marked the documents of
\* marked: the finished ones, without the retrieved ones under
\* ignore_retrieved
ChosenByRetrieve(marked, ignore_retrieved) ==
    {i \in DOMAIN database :
        /\ database[i].finished \/ i \in marked
        /\ ignore_retrieved => ~database[i].retrieved}

\* C9: a retrieve that returns chooses the finished (ignore_retrieved:
\* finished and not retrieved) records, returns only trajectories of the
\* wdirs of the chosen records, read through the Driver, sets retrieved on
\* each chosen record and on no record that is not finished.
C9_RetrieveChosen ==
    [][ (last'.op = "retrieve" /\ last'.ok) =>
            LET chosen == ChosenByRetrieve(last'.marked, last'.ignore)
                ws == UNION {WdirSet(i) : i \in chosen}
            IN  /\ last'.chosen = chosen
                /\ Range(last'.results) \subseteq ws
                /\ (~last'.filter /\ ~compact) => Range(last'.read) = ws
                /\ \A i \in chosen : database'[i].retrieved
                /\ \A i \in DOMAIN database :
                      (database'[i].retrieved /\ ~database[i].retrieved) =>
                          database'[i].finished /\ i \in chosen ]_vars

\* C10: a retrieve with ignore_retrieved leaves no finished record
\* unretrieved, and a later one that finds none and whose inspect marks
\* nothing returns an empty result and changes nothing; two consecutive
\* retrieves over all finished records, the second marking nothing, return
\* the same trajectories.
C10_RetrieveIdempotent ==
    [][ /\ (last'.op = "retrieve" /\ last'.ignore /\ last'.ok) =>
              \A i \in DOMAIN database' :
                  database'[i].finished => database'[i].retrieved
        /\ (/\ last'.op = "retrieve"
            /\ last'.ignore
            /\ last'.marked = {}
            /\ \A i \in DOMAIN database :
                  database[i].finished => database[i].retrieved) =>
              /\ last'.ok
              /\ last'.results = <<>>
              /\ database' = database
        /\ (/\ last.op = "retrieve" /\ ~last.ignore /\ last.ok
            /\ last'.op = "retrieve" /\ ~last'.ignore
            /\ last'.filter = last.filter
            /\ last'.marked = {}) =>
              /\ last'.ok
              /\ last'.results = last.results
              /\ database' = database ]_vars

\* The second of two retrieves with ignore_retrieved returned nothing after
\* the first returned a trajectory
C10_Witness ==
    /\ last.op = "retrieve"
    /\ last.ignore
    /\ last.ok
    /\ last.marked = {}
    /\ last.results = <<>>
    /\ \E i \in DOMAIN database :
          database[i].retrieved /\ wdirs[database[i].wdir_names[1]] = "ok"

\* The fields of a record that are written at its insertion
Identity(doc) ==
    <<doc.uid, doc.md5, doc.gdir, doc.group_number, doc.wdir_names, doc.queued>>

\* C11: a BatchRecord is created only by Worker.run; Worker.run leaves every
\* existing record as it is, inspect changes only finished, retrieve changes
\* only retrieved (and finished, through the inspect it calls first, for the
\* records that inspect marked); uid, stru_id, batch_id and wdir_names of a
\* record never change and no record is deleted.
C11_RecordFrame ==
    [][ /\ DOMAIN database \subseteq DOMAIN database'
        /\ DOMAIN database' # DOMAIN database => last'.op = "run"
        /\ \A i \in DOMAIN database :
              /\ Identity(database'[i]) = Identity(database[i])
              /\ last'.op \in {"run", "job"} => database'[i] = database[i]
              /\ last'.op = "inspect" =>
                     database'[i].retrieved = database[i].retrieved
              /\ last'.op = "retrieve" =>
                     (database'[i].finished # database[i].finished =>
                          i \in last'.marked) ]_vars

\* A retrieve whose inspect marked one record finished set it retrieved next
\* to a record that stayed as it was
C11_Witness ==
    /\ last.op = "retrieve"
    /\ last.marked # {}
    /\ \E i, j \in DOMAIN database :
          /\ database[i].retrieved /\ i \in last.marked
          /\ ~database[j].finished

\* The indices of the batches of the list S
BatchIndices(S) == 0 .. (NBatches(Len(S), batchsize) - 1)

\* C12: under local execution a failing engine never ends Worker.run: the
\* call returns normally and every batch of the list was run or skipped,
\* also when the engine left no readable trajectory.
C12_EngineErrorsContained ==
    (last.op = "run" /\ local) =>
        /\ last.ok
        /\ last.skipped \cup last.ran = BatchIndices(last.S)

\* The batch at which the Worker.run recorded in l stopped: the first batch
\* that was neither skipped nor run
FailedBatch(l) ==
    CHOOSE ig \in BatchIndices(l.S) \ (l.skipped \cup l.ran) :
        \A other \in BatchIndices(l.S) \ (l.skipped \cup l.ran) : ig <= other

\* C13: a batch whose submission or execution failed inside Worker.run has
\* no record, and the next Worker.run with the same structures runs it
\* again instead of skipping it.
C13_FailedBatchRunsAgain ==
    [][ /\ (last'.op = "run" /\ ~last'.ok) =>
              ~\E i \in DOMAIN database' :
                  /\ database'[i].md5 = inp_stru_md5(last'.S)
                  /\ database'[i].group_number = FailedBatch(last')
        /\ (/\ last.op = "run" /\ ~last.ok
            /\ last'.op = "run" /\ last'.S = last.S) =>
              FailedBatch(last) \notin last'.skipped ]_vars

\* A retrieve without _compact returned
RetrieveReturned == last.op = "retrieve" /\ last.ok /\ ~compact

C15_EmptyTrajectorySurfaced ==
    (last.op = "retrieve" /\ ~compact) =>
        /\ last.ok
        /\ \A k \in Range(last.read) :
              /\ wdirs[k] = "empty" => k \notin Range(last.results)
              /\ wdirs[k] = "ok" => k \in Range(last.results)

\* The stitched trajectory of the working directory
Stitched == read_trajectory(driver)

\* The directory holds a run that ended converged: a last frame whose
\* step + 1 reaches setting.steps or, for min, whose forces are within fmax;
\* for a single-point calculation, a single frame
EndedConverged ==
    /\ Len(Stitched) > 0
    /\ IF driver.steps > 0
       THEN \/ Stitched[Len(Stitched)] + 1 >= driver.steps
            \/ driver.task = "min" /\ driver.lowfrc
       ELSE Len(Stitched) = 1
    /\ driver.scf

\* Driver.run(a) after Driver.run(a): read_ckpt on, the same atoms
SecondRun ==
    /\ dlast.op = "run"
    /\ dlast'.op = "run"
    /\ dlast'.read_ckpt
    /\ dlast'.atoms = dlast.atoms

Restart ==
    /\ dlast'.op = "run"
    /\ driver.exists
    /\ dlast'.read_ckpt
    /\ ~dlast'.system_changed
    /\ ~EndedConverged

\* The files of saved_fnames as they are in the working directory
SavedFiles ==
    [f \in Files |-> IF f \in saved_fnames THEN driver.files[f] ELSE 0]

\* Such a call snapshots the directory into {k:04d}.run, k the number of
\* snapshots before it, keeps the earlier snapshots as they are and leaves
\* nothing else behind for the engine, which then writes its own files.
SnapshotTaken ==
    LET k == Cardinality(DOMAIN driver.runs)
    IN  /\ k \notin DOMAIN driver.runs
        /\ DOMAIN driver'.runs = DOMAIN driver.runs \cup {k}
        /\ driver'.runs[k] = SavedFiles
        /\ \A j \in DOMAIN driver.runs : driver'.runs[j] = driver.runs[j]
        /\ driver'.gbak = NoBackups
        /\ driver'.files["traj.xyz"] = dlast'.w
        /\ DOMAIN driver'.runs = 0 .. (driver'.restarts - 1)

\* AseDriver.run instead copies every present file of saved_fnames to its
\* first free gbak.{idx}.{fname}, keeps the earlier backups, deletes the
\* files of removed_fnames and makes no snapshot directory.
BackupTaken ==
    /\ driver'.runs = driver.runs
    /\ DOMAIN driver'.runs = {}
    /\ \A f \in Files :
          driver'.gbak[f] =
             IF f \in saved_fnames /\ driver.files[f] > 0
             THEN Append(driver.gbak[f], driver.files[f])
             ELSE driver.gbak[f]
    /\ driver'.files["traj.xyz"] = dlast'.w

RECURSIVE SumAll(_)
\* Number of frames of the given segments
SumAll(segs) == IF segs = <<>> THEN 0 ELSE Head(segs) + SumAll(Tail(segs))

\* The trajectories AseDriver preserved at its restarts, in their order
PreservedSegments == driver.gbak["traj.xyz"]

\* C18: with m earlier segments preserved by the restarts of one working
\* directory, read_trajectory returns them in order followed by the current
\* segment, each earlier one without its last frame: its length is the sum
\* of the segment lengths minus m, and its steps count on from 0.
C18_StitchedLength ==
    driver.kind = "ase" =>
        /\ Len(Stitched) = SumAll(PreservedSegments)
                              + driver.files["traj.xyz"]
                              - Len(PreservedSegments)
        /\ Stitched = Enumerated(Len(Stitched))

\* C19: after any number of consecutive Driver.run calls on one directory
\* (read_ckpt on, the same atoms) the stitched trajectory has strictly
\* increasing steps and its last frame has step <= setting.steps: the
\* resumes never exceed the step budget.
C19_StepBudget ==
    (driver.kind = "ase" /\ driver.defaults /\ dlast.op = "run") =>
        /\ \A i, j \in DOMAIN Stitched : i < j => Stitched[i] < Stitched[j]
        /\ Len(Stitched) > 0 => Stitched[Len(Stitched)] <= driver.steps

\* A min run of n steps whose engine was killed with j < n frames written
\* is resumed by a second Driver.run whose engine runs through its steps
KilledThenCompleted ==
    /\ driver.kind = "ase" /\ driver.task = "min"
    /\ dlast.op = "run" /\ dlast.fresh /\ dlast.ran
    /\ dlast.w > 0 /\ dlast.w < driver.steps /\ ~driver.lowfrc
    /\ dlast'.op = "run" /\ dlast'.read_ckpt /\ dlast'.ran
    /\ dlast'.w = dlast'.steps + 1

StepCount == IF Len(Stitched) > 0 THEN Stitched[Len(Stitched)] + 1 ELSE 0

RanFromScratch ==
    /\ driver'.exists
    /\ dlast'.ran /\ ~dlast'.resumed
    /\ dlast'.steps = driver.steps
    /\ driver'.runs = driver.runs
    /\ driver'.files["traj.xyz"] = dlast'.w

\* C22: Driver.run in an existing directory with atoms other than those of
\* the prior invocation deletes the files of removed_fnames and runs from
\* scratch with the new atoms, without a checkpoint snapshot and without
\* resuming from the old trajectory; in a directory that does not exist,
\* it creates it and runs from scratch.
C22_ChangedAtomsRunFromScratch ==
    [][ dlast'.op = "run" =>
            /\ ~driver.exists => RanFromScratch
            /\ (driver.exists /\ dlast.op = "run"
                   /\ dlast'.atoms # dlast.atoms) => RanFromScratch ]_vars

\* C23: the file _data/{stru_id}.xyz is write-once: no Worker.run, inspect
\* or retrieve deletes a stored file, only Worker.run writes one, and a
\* Worker.run whose structures hash to a stru_id that is already stored
\* does not write and keeps the existing file.
C23_StoredFileWriteOnce ==
    [][ /\ stored \subseteq stored'
        /\ last'.op # "run" => (stored' = stored /\ ~last'.wrote)
        /\ last'.op = "run" =>
              /\ last'.wrote <=> inp_stru_md5(last'.S) \notin stored
              /\ stored' = stored \cup {inp_stru_md5(last'.S)} ]_vars

\* Two files are stored, the last Worker.run was on structures whose file
\* existed, and a retrieve has come after it.
C23_Witness ==
    /\ Cardinality(stored) = 2
    /\ last.op = "run"
    /\ ~last.wrote
    /\ inp_stru_md5(last.S) \in stored
    /\ \E i \in DOMAIN database : database[i].retrieved

\* The canonical content of the structures of S: of every structure, in
\* order, the geometry and the mobility mask, without the info.
CanonicalContent(S) ==
    [i \in 1 .. Len(S) |->
        [positions |-> S[i].positions, move_mask |-> S[i].move_mask]]

\* C24: the stru_id computed by Worker.run depends only on the canonical
\* content of the structures (geometry and mobility mask) and their order:
\* of two consecutive submissions, those with the same canonical content,
\* whatever their info, get the same stru_id, and those that differ in a
\* mobility mask or in positions get different stru_ids.
C24_StruIdOfCanonicalContent ==
    [][ (last.op = "run" /\ last'.op = "run") =>
            (inp_stru_md5(last'.S) = inp_stru_md5(last.S)
                <=> CanonicalContent(last'.S) = CanonicalContent(last.S)) ]_vars

\* The half of C24 that holds: info churn leaves the stru_id as it was and
\* different positions or another order give another stru_id.
C24_StruIdOfGeometry ==
    [][ (last.op = "run" /\ last'.op = "run") =>
            (inp_stru_md5(last'.S) = inp_stru_md5(last.S)
                <=> copy_minimal_frames(last'.S)[1]
                      = copy_minimal_frames(last.S)[1]) ]_vars

\* The lines of the info table for the structures of a list of N structures
\* with the digest md5, numbered from the id start on
InfoLines(md5, N, start) ==
    [i \in 1 .. N |-> [id |-> start + (i - 1), md5 |-> md5]]

\* The global id of the first structure of md5 in the info table
FirstId(info, md5) ==
    CHOOSE k \in {info[h].id : h \in {j \in DOMAIN info : info[j].md5 = md5}} :
        \A h \in DOMAIN info : info[h].md5 = md5 => k <= info[h].id

\* C25: global_ids are contiguous from the number of structures already in
\* the info table: Worker.run on a new stru_id appends the ids
\* Len(table) .. Len(table) + N - 1, so the table always holds 0, 1, 2, ...
\* in order; Worker.run on a stru_id seen before leaves the table as it is,
\* and every record of a stru_id names the wdirs cand{global_id} of the ids
\* first given to its structures.
C25_GlobalIdsContiguous ==
    [][ last'.op = "run" =>
          LET md5 == inp_stru_md5(last'.S)
              N == Len(last'.S)
          IN  /\ \A i \in DOMAIN info_data' : info_data'[i].id = i - 1
              /\ md5 \notin stored =>
                    info_data' = info_data \o InfoLines(md5, N, Len(info_data))
              /\ md5 \in stored => info_data' = info_data
              /\ \A d \in DOMAIN database' :
                    database'[d].md5 = md5 =>
                       \A j \in DOMAIN database'[d].wdir_names :
                          database'[d].wdir_names[j] =
                             FirstId(info_data', md5)
                               + database'[d].group_number * batchsize
                               + (j - 1) ]_vars

\* A second Worker.run on the second of two stored lists recorded a batch
C25_Witness ==
    /\ last.op = "run"
    /\ ~last.wrote
    /\ last.ran # {}
    /\ Cardinality(stored) >= 2
    /\ Len(info_data) > Len(last.S)
    /\ FirstId(info_data, inp_stru_md5(last.S)) > 0
    /\ \E d \in DOMAIN database : database[d].md5 = inp_stru_md5(last.S)

\* C26: for N >= 1 structures and batchsize B >= 1 the batches planned by
\* Worker.run are the index ranges [0,B), [B,2B), ... in order, only the
\* last one possibly shorter, every index of [0,N) in exactly one batch and
\* no batch empty; B = 1 gives N batches and B >= N gives one batch; the
\* records of the list hold as many wdirs as their range has indices.
C26_BatchesPartition ==
    (last.op = "run" /\ Len(last.S) >= 1) =>
        LET N == Len(last.S)
            B == batchsize
            starts == _split_groups(N, B)[1]
            ends == _split_groups(N, B)[2]
            nb == Len(starts)
        IN  /\ Len(ends) = nb
            /\ \A g \in 1 .. nb :
                  /\ starts[g] = (g - 1) * B
                  /\ ends[g] = IF g < nb THEN g * B ELSE N
                  /\ starts[g] < ends[g]
                  /\ ends[g] - starts[g] <= B
            /\ \A x \in 0 .. (N - 1) :
                  Cardinality({g \in 1 .. nb :
                                  starts[g] <= x /\ x < ends[g]}) = 1
            /\ B = 1 => nb = N
            /\ B >= N => nb = 1
            /\ last.skipped \cup last.ran \subseteq 0 .. (nb - 1)
            /\ \A d \in DOMAIN database :
                  database[d].md5 = inp_stru_md5(last.S) =>
                     /\ database[d].group_number + 1 \in 1 .. nb
                     /\ Len(database[d].wdir_names) =
                           ends[database[d].group_number + 1]
                             - starts[database[d].group_number + 1]

\* Three structures in batches of two: the second batch is shorter, and
\* both are recorded
C26_Witness ==
    /\ last.op = "run"
    /\ Len(last.S) = 3
    /\ batchsize = 2
    /\ \E d \in DOMAIN database :
          /\ database[d].md5 = inp_stru_md5(last.S)
          /\ database[d].group_number = 1
          /\ Len(database[d].wdir_names) = 1

\* Worker.run ended in an exception before its loop over the batches: no
\* record inserted, no job submitted, no engine run.
NothingSubmitted ==
    /\ ~last'.ok
    /\ last'.ran = {} /\ last'.skipped = {}
    /\ database' = database
    /\ jobs' = jobs
    /\ wdirs' = wdirs
    /\ cached' = cached

\* C27 as stated: Worker.run with batchsize = 0 fails with a
\* ConfigurationError surfaced to the caller, inserts no record and submits
\* no job.
C27_ZeroBatchsizeConfigurationError ==
    [][ (last'.op = "run" /\ batchsize = 0) =>
            (last'.error = "ConfigurationError" /\ NothingSubmitted) ]_vars

\* C27: Worker.run with batchsize = 0 fails with the ZeroDivisionError of
\* _split_groups surfaced to the caller, after _preprocess has stored the
\* structures, and inserts no record and submits no job.
C27_ZeroBatchsizeZeroDivisionError ==
    [][ (last'.op = "run" /\ batchsize = 0) =>
            /\ last'.error = "ZeroDivisionError"
            /\ NothingSubmitted
            /\ inp_stru_md5(last'.S) \in stored' ]_vars

\* A Worker.run with batchsize = 0 on two new structures has failed
C27_Witness ==
    /\ batchsize = 0
    /\ last.op = "run"
    /\ Len(last.S) = 2
    /\ last.wrote
    /\ last.error = "ZeroDivisionError"
    /\ database = <<>>

\* The wdir names Worker.run plans for the structures of S from the info
\* table
PlannedWdirs(S, info) ==
    frame_wdirs(Len(S), info, FirstIndex(info, inp_stru_md5(S), 1))

\* C29: if the wdir_names planned for the structures of a Worker.run, and
\* so those of one of its batches, contain a duplicate, the run stops with
\* a fatal error before any batch is submitted or recorded.
C29_DuplicateWdirsFatal ==
    [][ (/\ last'.op = "run"
         /\ \E i, j \in 1 .. Len(last'.S) :
               /\ i # j
               /\ PlannedWdirs(last'.S, info_data')[i]
                    = PlannedWdirs(last'.S, info_data')[j]) =>
            (last'.error = "AssertionError" /\ NothingSubmitted) ]_vars

\* A Worker.run stopped on duplicate wdirs in a directory with records
C29_Witness ==
    /\ last.op = "run"
    /\ last.error = "AssertionError"
    /\ Len(last.S) >= 2
    /\ database # <<>>
    /\ \E i, j \in 1 .. Len(last.S) :
          /\ i # j
          /\ PlannedWdirs(last.S, info_data)[i]
               = PlannedWdirs(last.S, info_data)[j]

\* C28: Worker.run([]) on an empty structure list inserts no record,
\* submits no job, runs no engine and returns without error.
C28_EmptyListNoRecord ==
    [][ (last'.op = "run" /\ last'.S = <<>>) =>
            /\ last'.ok
            /\ last'.error = "none"
            /\ last'.ran = {}
            /\ database' = database
            /\ jobs' = jobs
            /\ wdirs' = wdirs
            /\ cached' = cached ]_vars

\* Worker.run([]) has returned in a directory that holds records
C28_Witness ==
    /\ last.op = "run"
    /\ last.S = <<>>
    /\ last.ok
    /\ database # <<>>
    /\ inp_stru_md5(<<>>) \in stored

\* C30: in compact mode Worker.run appends the final frame of each
\* structure it runs to _data/cached.xyz tagged with its wdir; whatever
\* complete or interrupted runs and re-runs came before, cached.xyz holds at
\* most one frame per wdir, nothing is ever taken out of it, and a wdir
\* already in the cache is not run (and appended) again.
C30_CacheOneFramePerWdir ==
    [][ compact =>
          /\ Cardinality(Range(cached')) = Len(cached')
          /\ Len(cached') >= Len(cached)
          /\ SubSeq(cached', 1, Len(cached)) = cached
          /\ \A j \in (Len(cached) + 1) .. Len(cached') :
                cached'[j] \notin Range(cached)
          /\ last'.op # "run" => cached' = cached ]_vars

\* A re-run of a batch of two structures after an interrupted run: both
\* frames are cached and the batch is recorded
C30_Witness ==
    /\ compact
    /\ batchsize = 2
    /\ last.op = "run"
    /\ ~last.wrote
    /\ Len(last.S) = 2
    /\ last.ran = {0}
    /\ Len(cached) = 2
    /\ Len(database) = 1

\* C31: when the Worker reads many working directories in parallel, each
\* reader works on its own Driver with its own directory and mutates no
\* state shared with other readers or with the Worker (the directory of the
\* Worker's driver stays what it was before the read), and the trajectory
\* returned for each wdir is the one stored in that wdir, for every
\* interleaving of the readers.
C31_ReadersIsolated ==
    /\ readers.directory = readers.before
    /\ \A i \in DOMAIN readers.pc :
          /\ readers.pc[i] = "directed" => readers.own[i] = readers.wdirs[i]
          /\ readers.pc[i] = "done" => readers.results[i] = readers.wdirs[i]

\* The half of C31 that holds: the trajectory returned for each wdir is the
\* one stored in that wdir, for every interleaving of the readers.
C31_TrajectoryOfItsWdir ==
    \A i \in DOMAIN readers.pc :
        readers.pc[i] = "done" => readers.results[i] = readers.wdirs[i]

\* The driver of a single-point minimisation: task min with steps == 0
SinglePoint ==
    /\ driver.kind = "ase"
    /\ driver.task = "min"
    /\ driver.steps = post_init_steps(0)

C33_ConvergedIffForceAndFlag ==
    reactor.exists =>
        (VaspStringReactor_read_convergence(reactor)
            <=> (reactor.lowfrc /\ reactor.flag))

\* C33 (as the code has it): read_convergence is true if and only if one of
\* three things holds: the inherited force criterion of the climbing image,
\* or vasp.out exists and its last step number has reached the maximum
\* number of steps, or vasp.out exists and has the line "reached required
\* accuracy".
C33_ConvergedIffForceOrBudgetOrFlag ==
    reactor.exists =>
        (VaspStringReactor_read_convergence(reactor)
            <=> \/ reactor.lowfrc
                \/ reactor.vaspout /\ Len(reactor.lines) >= reactor.steps
                \/ reactor.vaspout /\ reactor.flag)

\* The maximum number of steps alone: no force criterion, no flag
C33_Witness ==
    /\ reactor.exists
    /\ reactor.vaspout
    /\ ~reactor.lowfrc
    /\ ~reactor.flag
    /\ Len(reactor.lines) = reactor.steps
    /\ VaspStringReactor_read_convergence(reactor)

C35_TwoImagesReadIsAndFs ==
    (reactor.exists /\ reactor.nimages = 2) =>
        LET t == _read_a_single_trajectory(reactor)
        IN  /\ t.error = "none"
            /\ \A i \in DOMAIN t.frames :
                  t.frames[i] = <<ini_atoms, fin_atoms(reactor)>>

\* ------------------------------------------------------------------ C36
\* C36: a computer with P potentials and D driver variants creates exactly
\* P*D Workers, one for each pair (p, d) exactly once, each with its own
\* directory w0 .. w(P*D-1), and the Worker of the pair (p, d) uses the
\* potential p and a driver built from the potential p with the variant d,
\* whichever kind of Worker (command, queue, single) is created.
C36_OneWorkerPerPair ==
    computer.done =>
        LET P == computer.num_potters
            D == computer.num_drivers
            W == computer.workers
        IN  /\ computer.error = "none"
            /\ Len(W) = P * D
            /\ \A i \in DOMAIN W : W[i].directory \in 0 .. (P * D - 1)
            /\ \A i, j \in DOMAIN W :
                  W[i].directory = W[j].directory => i = j
            /\ \A p \in 0 .. (P - 1) : \A d \in 0 .. (D - 1) :
                  /\ Cardinality({i \in DOMAIN W :
                        W[i].driver = create_driver(p, d)}) = 1
                  /\ \A i \in DOMAIN W :
                        W[i].driver = create_driver(p, d)
                            => W[i].potter = p

\* The same for the kinds command and queue only, where it holds
C36_CommandAndQueueOneWorkerPerPair ==
    ~computer.use_single => C36_OneWorkerPerPair

\* ------------------------------------------------------------------ C37
\* C37: in every reachable state of the JobDatabase a record with retrieved
\* = true also has finished = true, and a record with finished = true also
\* has queued = true: no operation sets a later flag of the lifecycle on a
\* record that lacks the earlier one.
C37_FlagsOrdered ==
    \A i \in DOMAIN database :
        /\ database[i].retrieved => database[i].finished
        /\ database[i].finished => database[i].queued

\* A record went through the whole lifecycle, next to one that did not
C37_Witness ==
    /\ \E i \in DOMAIN database :
          database[i].queued /\ database[i].finished /\ database[i].retrieved
    /\ \E i \in DOMAIN database :
          database[i].queued /\ ~database[i].finished
    /\ last.op = "retrieve"

\* ------------------------------------------------------------------ C38
\* Every record of the database is retrieved
AllRetrieved ==
    /\ database # <<>>
    /\ \A i \in DOMAIN database : database[i].retrieved

\* C38: in the caller loop run -> inspect(resubmit=true) -> retrieve, with
\* a scheduler that at some time reports every submitted job finished and
\* jobs that at some time create all their wdirs, every queued record at
\* some time becomes finished and the number of running jobs reaches 0 (a
\* finished record stays finished, so: again and again no record is queued
\* and unfinished), and the retrieve that follows marks every record
\* retrieved; no record stays queued and unfinished forever.
C38_LoopCompletes ==
    /\ []<>(get_number_of_running_jobs(database) = 0)
    /\ (database # <<>>) ~> AllRetrieved

\* The part on the records becoming finished, without _compact
C38_QueuedBecomesFinished ==
    []<>(compact \/ get_number_of_running_jobs(database) = 0)

\* The part on the retrieve, without _compact
C38_FinishedBecomesRetrieved ==
    (~compact /\ database # <<>>) ~> AllRetrieved

\* ------------------------------------------------------------------ C39
\* Every structure that was run, was run in its own wdir with its own driver
C39_RunOneToOne ==
    \A k \in 0 .. (MaxGrid - 1) :
        grid.wdirs[k].content # "absent"
            => (k < grid.n /\ grid.wdirs[k].driver = k)

\* C39: in the grid Worker structures and drivers are one-to-one: for every
\* batch, also one with an index above 0, the structure i is run in cand{i}
\* with drivers[i], and inspect and retrieve read the convergence and the
\* trajectory of cand{i} with that same drivers[i]; a record is marked
\* finished only when all its wdirs exist and each of its own drivers
\* reports convergence.
C39_GridOneToOne ==
    /\ C39_RunOneToOne
    /\ \A p \in grid.checked : p.driver = p.wdir
    /\ \A i \in DOMAIN grid.read : grid.read[i].driver = grid.read[i].wdir
    /\ \A i \in DOMAIN grid.db :
          grid.db[i].finished =>
              \A j \in DOMAIN grid.db[i].wdir_names :
                  LET k == grid.db[i].wdir_names[j]
                  IN  /\ grid.wdirs[k].content # "absent"
                      /\ grid_read_convergence(grid, k, k)

\* ------------------------------------------------------------------ C40
\* The wdirs of the records that are retrieved
RetrievedWdirs ==
    UNION {Range(database[i].wdir_names) :
              i \in {j \in DOMAIN database : database[j].retrieved}}

\* C40: a retrieve that returns sets retrieved = true on every record of
\* the set it chose, in the same call, whether or not the filter given_wdirs
\* kept the wdirs of the record from being read and whether or not a
\* trajectory was returned for them; the flag is never taken back, hence a
\* later retrieve that excludes the retrieved records returns no wdir of a
\* record retrieved before, a wdir skipped by the filter among them.
C40_RetrieveMarksChosen ==
    [][/\ (last'.op = "retrieve" /\ last'.ok)
            => \A i \in last'.chosen : database'[i].retrieved
       /\ \A i \in DOMAIN database :
            database[i].retrieved
                => (i \in DOMAIN database' /\ database'[i].retrieved)
       /\ (last'.op = "retrieve" /\ last'.ok /\ last'.ignore)
            => Range(last'.results) \cap RetrievedWdirs = {}]_vars

\* A retrieve with the filter chose a record none of whose wdirs passed the
\* filter: nothing of it was read or returned, and it is retrieved
C40_Witness ==
    /\ last.op = "retrieve"
    /\ last.ok
    /\ last.filter
    /\ \E i \in last.chosen :
          /\ Range(database[i].wdir_names) \cap given_wdirs = {}
          /\ Range(database[i].wdir_names) \cap Range(last.read) = {}
          /\ Range(database[i].wdir_names) \cap Range(last.results) = {}
          /\ database[i].retrieved
====
